---- MODULE Spec2Model ----
(***************************************************************************)
(* Decision engine for the LR hatch coaming measures 1-5.                  *)
(*                                                                         *)
(* Two implementations live in the repository and both are modelled:       *)
(*   LR  lr-hatch-coaming-measures/lr_hatch_coaming (decision_engine.py,   *)
(*       rule_tables.py, measure_applicator.py, pipeline.py)               *)
(*   SE  services/engine/decision_engine.py                                *)
(*                                                                         *)
(* Thicknesses are whole millimetres, yields are N/mm2.  Member and joint  *)
(* ids are naturals that stand for the rank of the id string in Python's   *)
(* string order (1 < 2 means id1 < id2).                                   *)
(***************************************************************************)
EXTENDS Naturals, Integers, Sequences, FiniteSets, TLC

VARIABLES
    members,            \* input: list of MemberInput
    joints,             \* input: list of JointInput
    measure3_choice,    \* input: Measure3Choice
    table_821,          \* input: list of Table821Row
    y_control,          \* argument of determine_required_measures
    t_control,          \* argument of determine_required_measures
    cp,                 \* LR ControlParameters
    cp_flags,           \* LR flags of derive_control_parameters
    cv,                 \* SE ControlValues
    cv_flags,           \* SE flags of _derive_control_values
    required_measures,  \* LR {measure_id: status}
    lookup_info,        \* LR lookup metadata
    decision_flags,     \* LR flags of run_decision / determine_required_measures
    applications,       \* LR list of MeasureApplication
    app_flags,          \* LR flags of apply_measures
    pending,            \* LR pending choices
    lk_args,            \* arguments of lookup_table_821
    lk_row,             \* result of lookup_table_821
    se_lookup,          \* SE result of _lookup_table_821: row and flags
    se_run,             \* SE result of run_decision
    results,            \* SE accumulator list of AppliedMeasure
    inserted,           \* SE history: the measures handed to _append_measure
    prev_applications,  \* applications list of the previous pipeline run
    run,                \* number of the current pipeline run
    pc                  \* position of the current run

vars == <<members, joints, measure3_choice, table_821, y_control, t_control,
          cp, cp_flags, cv, cv_flags, required_measures, lookup_info,
          decision_flags, applications, app_flags, pending, lk_args, lk_row,
          se_lookup, se_run, results, inserted, prev_applications, run, pc>>

(***************************************************************************)
(* Bounds                                                                  *)
(***************************************************************************)
MaxCtlMembers == 3     \* members of a list handed to the control derivers
MaxMembers == 2        \* members of a pipeline input
MaxJoints == 2         \* joints of a pipeline input
MaxInserts == 3        \* records handed to the accumulator
MaxRuns == 2           \* pipeline runs on one input
MaxRunMembers == 2     \* members of an input of one engine run
MaxRunJoints == 2      \* joints of an input of one engine run
MaxMergeInserts == 2    \* records handed to the accumulator for merging
MaxStageMembers == 1   \* members of an input of a stage-by-stage run
MaxStageJoints == 1    \* joints of an input of a stage-by-stage run

(***************************************************************************)
(* Sentinel and enumerations                                               *)
(***************************************************************************)
UNSPECIFIED == -999

MemberRole == {"upper_deck_plate", "hatch_coaming_side_plate",
               "hatch_coaming_top_plate", "attached_longitudinal",
               "other", "unknown"}

JointType == {"block_to_block_butt", "coaming_to_deck_connection",
              "attachment_weld", "other"}

Zone == {"cargo_hold_region", "outside_cargo_hold", "unspecified"}

Measure3Option == {"block_shift", "crack_arrest_hole", "crack_arrest_insert",
                   "enhanced_NDE", "unspecified"}

MeasureStatus == {"Required", "Not required", "Conditional", "See Note 2",
                  "pending_manual_choice"}

MeasureIds == 1..5

\* a flag without related ids
NoIds == <<>>

Flag(id, rel) == [flag_id |-> id, related_ids |-> rel]

Max(a, b) == IF a >= b THEN a ELSE b

RECURSIVE MapIds(_)
MapIds(ms) ==
    IF ms = <<>> THEN <<>> ELSE <<Head(ms).member_id>> \o MapIds(Tail(ms))

(***************************************************************************)
(* LR: derive_control_parameters                                           *)
(***************************************************************************)
_is_specified_number(val) == val # UNSPECIFIED

\* the value read from the first member of a role, or the sentinel
FirstValue(ms, field) ==
    IF ms # <<>> /\ _is_specified_number(Head(ms)[field])
    THEN Head(ms)[field] ELSE UNSPECIFIED

ThicknessNoFlag(ts, tt, side_members, top_members) ==
    IF _is_specified_number(ts) /\ _is_specified_number(tt)
    THEN [v |-> Max(ts, tt), flags |-> <<>>]
    ELSE IF _is_specified_number(ts) THEN [v |-> ts, flags |-> <<>>]
    ELSE IF _is_specified_number(tt) THEN [v |-> tt, flags |-> <<>>]
    ELSE [v |-> UNSPECIFIED, flags |-> <<>>]

ThicknessMin(ts, tt, side_members, top_members) ==
    IF _is_specified_number(ts) /\ _is_specified_number(tt)
    THEN [v |-> IF ts <= tt THEN ts ELSE tt, flags |-> <<>>]
    ELSE IF _is_specified_number(ts)
    THEN [v |-> ts,
          flags |-> <<Flag("t_control_partial", MapIds(side_members))>>]
    ELSE IF _is_specified_number(tt)
    THEN [v |-> tt,
          flags |-> <<Flag("t_control_partial", MapIds(top_members))>>]
    ELSE [v |-> UNSPECIFIED, flags |-> <<>>]

\* decision_engine.py lines 49-67
ControlThickness(ts, tt, side_members, top_members) ==
    IF _is_specified_number(ts) /\ _is_specified_number(tt)
    THEN [v |-> Max(ts, tt), flags |-> <<>>]
    ELSE IF _is_specified_number(ts)
    THEN [v |-> ts,
          flags |-> <<Flag("t_control_partial", MapIds(side_members))>>]
    ELSE IF _is_specified_number(tt)
    THEN [v |-> tt,
          flags |-> <<Flag("t_control_partial", MapIds(top_members))>>]
    ELSE [v |-> UNSPECIFIED, flags |-> <<>>]

YieldAlwaysFlag(ys, yt, side_members, top_members) ==
    IF _is_specified_number(ys) /\ _is_specified_number(yt)
    THEN [v |-> Max(ys, yt),
          flags |-> <<Flag("yield_mismatch",
                           MapIds(side_members \o top_members))>>]
    ELSE IF _is_specified_number(ys)
    THEN [v |-> ys,
          flags |-> <<Flag("y_control_partial", MapIds(side_members))>>]
    ELSE IF _is_specified_number(yt)
    THEN [v |-> yt,
          flags |-> <<Flag("y_control_partial", MapIds(top_members))>>]
    ELSE [v |-> UNSPECIFIED, flags |-> <<>>]

\* decision_engine.py lines 75-104
ControlYield(ys, yt, side_members, top_members) ==
    IF _is_specified_number(ys) /\ _is_specified_number(yt)
    THEN [v |-> Max(ys, yt),
          flags |-> IF ys # yt
                    THEN <<Flag("yield_mismatch",
                                MapIds(side_members \o top_members))>>
                    ELSE <<>>]
    ELSE IF _is_specified_number(ys)
    THEN [v |-> ys,
          flags |-> <<Flag("y_control_partial", MapIds(side_members))>>]
    ELSE IF _is_specified_number(yt)
    THEN [v |-> yt,
          flags |-> <<Flag("y_control_partial", MapIds(top_members))>>]
    ELSE [v |-> UNSPECIFIED, flags |-> <<>>]

derive_control_parameters(ms) ==
    LET side_members ==
            SelectSeq(ms, LAMBDA m : m.member_role = "hatch_coaming_side_plate")
        top_members ==
            SelectSeq(ms, LAMBDA m : m.member_role = "hatch_coaming_top_plate")
        ts == FirstValue(side_members, "thickness_mm_as_built")
        tt == FirstValue(top_members, "thickness_mm_as_built")
        ys == FirstValue(side_members, "yield_strength_nmm2")
        yt == FirstValue(top_members, "yield_strength_nmm2")
        t == ControlThickness(ts, tt, side_members, top_members)
        y == ControlYield(ys, yt, side_members, top_members)
    IN  [cp |-> [t_side |-> ts, t_top |-> tt, t_control |-> t.v,
                 y_side |-> ys, y_top |-> yt, y_control |-> y.v],
         flags |-> t.flags \o y.flags]

(***************************************************************************)
(* SE: _derive_control_values                                              *)
(***************************************************************************)
is_unspecified(value) == value = UNSPECIFIED

\* the same test on a zone, whose sentinel is written "unspecified"
is_unspecified_zone(zone) == zone = "unspecified"

\* the loop of lines 71-82: the last specified value of a role wins;
\* None is modelled by the sentinel
RECURSIVE LastValue(_, _, _, _)
LastValue(ms, role, field, acc) ==
    IF ms = <<>> THEN acc
    ELSE LET m == Head(ms)
         IN  LastValue(Tail(ms), role, field,
                       IF m.member_role = role /\ ~is_unspecified(m[field])
                       THEN m[field] ELSE acc)

SEFlag(id) == [flag_id |-> id, related_ids |-> NoIds]

_derive_control_values(ms) ==
    LET side_t == LastValue(ms, "hatch_coaming_side_plate",
                            "thickness_mm_as_built", UNSPECIFIED)
        top_t == LastValue(ms, "hatch_coaming_top_plate",
                           "thickness_mm_as_built", UNSPECIFIED)
        side_y == LastValue(ms, "hatch_coaming_side_plate",
                            "yield_strength_nmm2", UNSPECIFIED)
        top_y == LastValue(ms, "hatch_coaming_top_plate",
                           "yield_strength_nmm2", UNSPECIFIED)
        t == IF side_t # UNSPECIFIED /\ top_t # UNSPECIFIED
             THEN [v |-> Max(side_t, top_t), flags |-> <<>>]
             ELSE IF side_t # UNSPECIFIED
             THEN [v |-> side_t, flags |-> <<SEFlag("CTRL-T-01")>>]
             ELSE IF top_t # UNSPECIFIED
             THEN [v |-> top_t, flags |-> <<SEFlag("CTRL-T-02")>>]
             ELSE [v |-> UNSPECIFIED, flags |-> <<SEFlag("CTRL-T-03")>>]
        y == IF side_y # UNSPECIFIED /\ top_y # UNSPECIFIED
             THEN [v |-> Max(side_y, top_y),
                   flags |-> IF side_y # top_y
                             THEN <<SEFlag("CTRL-Y-01")>> ELSE <<>>]
             ELSE IF side_y # UNSPECIFIED
             THEN [v |-> side_y, flags |-> <<SEFlag("CTRL-Y-02")>>]
             ELSE IF top_y # UNSPECIFIED
             THEN [v |-> top_y, flags |-> <<SEFlag("CTRL-Y-03")>>]
             ELSE [v |-> UNSPECIFIED, flags |-> <<SEFlag("CTRL-Y-04")>>]
    IN  [cv |-> [t_control_mm |-> t.v, y_control_nmm2 |-> y.v],
         flags |-> t.flags \o y.flags]

(***************************************************************************)
(* LR: Table 8.2.1 (rule_tables.py)                                        *)
(***************************************************************************)
Row(y, lo, hi, m1, m2, m34, m5) ==
    [yield_strength_nmm2 |-> y, t_min_mm |-> lo, t_max_mm |-> hi,
     measure_1 |-> m1, measure_2 |-> m2, measure_3_and_4 |-> m34,
     measure_5 |-> m5]

\* lookup_table_821 returning None
NoRow == [none |-> TRUE]

_DEFAULT_TABLE_821 ==
    << Row(355, 0, 50, "Not required", "Not required", "Not required", "Not required"),
       Row(355, 50, 65, "Required", "Not required", "Not required", "Not required"),
       Row(355, 65, 85, "Required", "See Note 2", "Required", "Not required"),
       Row(355, 85, 100, "Required", "See Note 2", "Required", "Required"),
       Row(390, 0, 40, "Not required", "Not required", "Not required", "Not required"),
       Row(390, 40, 50, "Required", "Not required", "Not required", "Not required"),
       Row(390, 50, 65, "Required", "See Note 2", "Required", "Not required"),
       Row(390, 65, 85, "Required", "See Note 2", "Required", "Required"),
       Row(390, 85, 100, "Required", "See Note 2", "Required", "Required"),
       Row(460, 0, 30, "Not required", "Not required", "Not required", "Not required"),
       Row(460, 30, 40, "Required", "Not required", "Not required", "Not required"),
       Row(460, 40, 50, "Required", "See Note 2", "Required", "Not required"),
       Row(460, 50, 65, "Required", "See Note 2", "Required", "Required"),
       Row(460, 65, 85, "Required", "See Note 2", "Required", "Required"),
       Row(460, 85, 100, "Required", "See Note 2", "Required", "Required") >>

RowMatchesInclusiveMin(row, yield_strength, thickness) ==
    /\ row.yield_strength_nmm2 = yield_strength
    /\ \/ row.t_min_mm <= thickness /\ thickness <= row.t_max_mm
       \/ row.t_min_mm = 0 /\ thickness <= row.t_max_mm

\* rule_tables.py lines 291-297: the test one row has to pass
RowMatches(row, yield_strength, thickness) ==
    /\ row.yield_strength_nmm2 = yield_strength
    /\ \/ row.t_min_mm < thickness /\ thickness <= row.t_max_mm
       \/ row.t_min_mm = 0 /\ thickness <= row.t_max_mm

RECURSIVE lookup_table_821(_, _, _)
lookup_table_821(table, yield_strength, thickness) ==
    IF table = <<>> THEN NoRow
    ELSE IF RowMatches(Head(table), yield_strength, thickness)
         THEN Head(table)
         ELSE lookup_table_821(Tail(table), yield_strength, thickness)

(***************************************************************************)
(* SE: _lookup_table_821 (services/engine/decision_engine.py)              *)
(***************************************************************************)
\* matched_ys is None
NoCategory == -1

ys_categories(table) == {table[i].yield_strength_nmm2 : i \in DOMAIN table}

\* lines 151-162: the smallest category not below y_control, else the largest
matched_ys(table, y) ==
    LET cats == ys_categories(table)
        up == {c \in cats : y <= c}
    IN  IF up # {} THEN CHOOSE c \in up : \A d \in up : c <= d
        ELSE IF cats # {} THEN CHOOSE c \in cats : \A d \in cats : d <= c
        ELSE NoCategory

\* lines 168-175: the first row of the matched category whose range holds t
RECURSIVE FirstInRange(_, _, _)
FirstInRange(table, ys, t) ==
    IF table = <<>> THEN NoRow
    ELSE IF /\ Head(table).yield_strength_nmm2 = ys
            /\ Head(table).t_min_mm < t
            /\ t <= Head(table).t_max_mm
         THEN Head(table)
         ELSE FirstInRange(Tail(table), ys, t)

_lookup_table_821(table, y, t) ==
    LET ys == matched_ys(table, y)
        ys_flags == IF \E c \in ys_categories(table) : y <= c
                    THEN <<>> ELSE <<SEFlag("T821-YS-01")>>
        row == IF ys = NoCategory THEN NoRow ELSE FirstInRange(table, ys, t)
    IN  [row |-> row,
         flags |-> IF ys # NoCategory /\ row = NoRow
                   THEN Append(ys_flags, SEFlag("T821-RANGE-01"))
                   ELSE ys_flags]

(***************************************************************************)
(* LR: determine_required_measures                                         *)
(***************************************************************************)
\* an initial map that assumes measure 1
Measure1Assumed ==
    [m \in MeasureIds |-> IF m = 1 THEN "Required" ELSE "Not required"]

\* lines 123-129: every measure starts as Not required
AllNotRequired == [m \in MeasureIds |-> "Not required"]

NoLookupInfo == [matched_row |-> NoRow, special |-> FALSE,
                 note_2_applied |-> "unset"]

\* the yields retried when no exact row matches (line 167)
FallbackYields == <<355, 390, 460>>

\* lines 167-178: the first retry yield that finds a row, or 0
RECURSIVE FallbackYield(_, _, _)
FallbackYield(table, t, tries) ==
    IF tries = <<>> THEN 0
    ELSE IF lookup_table_821(table, Head(tries), t) # NoRow THEN Head(tries)
    ELSE FallbackYield(table, t, Tail(tries))

ThicknessSpecialFrom100(t) == t >= 100

\* line 148
ThicknessSpecial(t) == t > 100

Note2Always(cell, option) ==
    IF cell = "See Note 2" THEN "Conditional" ELSE cell

\* lines 212-225: Note 2 handling of the measure-2 cell
Note2Status(cell, option) ==
    IF cell = "See Note 2"
    THEN IF option = "enhanced_NDE" THEN "Conditional" ELSE "Not required"
    ELSE cell

SkipNever(y, t) == FALSE

\* line 132
ControlUnspecified(y, t) ==
    ~_is_specified_number(y) \/ ~_is_specified_number(t)

\* lines 200-206: the bundled 3+4 cell sets required[3] and required[4] in
\* the same branch; any other cell status leaves both at Not required
Expand3(cell) == IF cell = "Required" THEN "Required" ELSE "Not required"

\* the cell copied to measure 4 as it stands
Expand4Verbatim(cell) == cell

Expand4(cell) == IF cell = "Required" THEN "Required" ELSE "Not required"

determine_required_measures(table, y, t, choice) ==
    IF ControlUnspecified(y, t)
    THEN [required |-> AllNotRequired, lookup_info |-> NoLookupInfo,
          flags |-> <<Flag("control_unspecified", NoIds)>>]
    ELSE IF ThicknessSpecial(t)
    THEN [required |-> [m \in MeasureIds |-> "Required"],
          lookup_info |-> [NoLookupInfo EXCEPT !.special = TRUE],
          flags |-> <<Flag("thickness_gt100", NoIds)>>]
    ELSE
      LET exact == lookup_table_821(table, y, t)
          fy == IF exact = NoRow THEN FallbackYield(table, t, FallbackYields)
                ELSE 0
          row == IF exact # NoRow THEN exact
                 ELSE IF fy # 0 THEN lookup_table_821(table, fy, t)
                 ELSE NoRow
          fflags == IF fy # 0 THEN <<Flag("yield_fallback", NoIds)>> ELSE <<>>
      IN  IF row = NoRow
          THEN [required |-> AllNotRequired, lookup_info |-> NoLookupInfo,
                flags |-> fflags \o <<Flag("no_table_row", NoIds)>>]
          ELSE
            LET r3 == Expand3(row.measure_3_and_4)
                r4 == Expand4(row.measure_3_and_4)
            IN  [required |->
                    [m \in MeasureIds |->
                        CASE m = 1 -> row.measure_1
                          [] m = 2 -> Note2Status(row.measure_2, choice.option)
                          [] m = 3 -> r3
                          [] m = 4 -> r4
                          [] m = 5 -> row.measure_5],
                 lookup_info |->
                    [matched_row |-> row, special |-> FALSE,
                     note_2_applied |->
                        IF row.measure_2 = "See Note 2"
                        THEN IF choice.option = "enhanced_NDE"
                             THEN "true" ELSE "false"
                        ELSE "unset"],
                 flags |-> fflags]

(***************************************************************************)
(* LR: Table 8.2.2 (rule_tables.py)                                        *)
(***************************************************************************)
Entry(cat, y, lo, hi, bca) ==
    [member_category |-> cat, yield_strength_nmm2 |-> y, t_min_mm |-> lo,
     t_max_mm |-> hi, bca_type |-> bca]

_DEFAULT_TABLE_822 ==
    << Entry("upper_deck", 355, 65, 100, "BCA1"),
       Entry("upper_deck", 390, 50, 65, "BCA1"),
       Entry("upper_deck", 390, 65, 100, "BCA1"),
       Entry("upper_deck", 460, 40, 50, "BCA1"),
       Entry("upper_deck", 460, 50, 65, "BCA1"),
       Entry("upper_deck", 460, 65, 100, "BCA2"),
       Entry("hatch_coaming_side", 355, 65, 85, "BCA1"),
       Entry("hatch_coaming_side", 355, 85, 100, "BCA1"),
       Entry("hatch_coaming_side", 390, 50, 65, "BCA1"),
       Entry("hatch_coaming_side", 390, 65, 85, "BCA2"),
       Entry("hatch_coaming_side", 390, 85, 100, "BCA2"),
       Entry("hatch_coaming_side", 460, 40, 50, "BCA1"),
       Entry("hatch_coaming_side", 460, 50, 65, "BCA2"),
       Entry("hatch_coaming_side", 460, 65, 100, "BCA2") >>

\* the bca_type of the entry lookup_table_822 finds, or "unspecified"
RECURSIVE lookup_table_822(_, _, _, _)
lookup_table_822(table, member_category, yield_strength, thickness) ==
    IF table = <<>> THEN "unspecified"
    ELSE LET e == Head(table)
         IN  IF /\ e.member_category = member_category
                /\ e.yield_strength_nmm2 = yield_strength
                /\ \/ e.t_min_mm < thickness /\ thickness <= e.t_max_mm
                   \/ e.t_min_mm = 0 /\ thickness <= e.t_max_mm
             THEN e.bca_type
             ELSE lookup_table_822(Tail(table), member_category,
                                   yield_strength, thickness)

(***************************************************************************)
(* LR: apply_measures (measure_applicator.py)                              *)
(***************************************************************************)
_UPPER_FLANGE_ROLES == {"upper_deck_plate", "hatch_coaming_side_plate",
                        "hatch_coaming_top_plate", "attached_longitudinal"}

_is_num(val) == val # UNSPECIFIED

\* member_map = {m.member_id: m for m in members}: the last member of an id
MemberIds(ms) == {ms[i].member_id : i \in 1..Len(ms)}

MemberMap(ms, mid) ==
    ms[CHOOSE i \in 1..Len(ms) :
          /\ ms[i].member_id = mid
          /\ \A k \in (i+1)..Len(ms) : ms[k].member_id # mid]

\* member_map.get(mid, MemberInput(member_id="?", member_role=unknown)).member_role
RoleOrUnknown(ms, mid) ==
    IF mid \in MemberIds(ms) THEN MemberMap(ms, mid).member_role ELSE "unknown"

\* {member_map[mid].member_role for mid in j.connected_members if mid in member_map}
ConnectedRoles(ms, j) ==
    {MemberMap(ms, j.connected_members[i]).member_role :
        i \in {k \in 1..Len(j.connected_members) :
                  j.connected_members[k] \in MemberIds(ms)}}

connected_upper(ms, j) ==
    \A i \in 1..Len(j.connected_members) :
        RoleOrUnknown(ms, j.connected_members[i]) \in _UPPER_FLANGE_ROLES

App(mid, name, status, ttype, tid, ref, bca, ok, weld) ==
    [measure_id |-> mid, measure_name |-> name, status |-> status,
     target_type |-> ttype, target_id |-> tid, rule_ref |-> ref,
     bca_type |-> bca, offset_meets_requirement |-> ok, weld_process |-> weld]

MapSeq(s, F(_)) == [i \in 1..Len(s) |-> F(s[i])]

\* the joints Measure 1 and Measure 2 apply to (lines 67-79, 101-112)
UpperFlangeButts(ms, js) ==
    SelectSeq(js, LAMBDA j : /\ j.zone = "cargo_hold_region"
                             /\ j.joint_type = "block_to_block_butt"
                             /\ connected_upper(ms, j))

Measure1Apps(req, ms, js) ==
    IF req[1] = "Required"
    THEN MapSeq(UpperFlangeButts(ms, js),
                LAMBDA j : App(1, "100% UT during construction", "Required",
                               "joint", j.joint_id, "Table 8.2.1 Measure 1",
                               "", FALSE, ""))
    ELSE <<>>

Measure2Apps(req, ms, js, choice) ==
    IF req[2] \in {"Required", "Conditional"} /\ choice.option = "enhanced_NDE"
    THEN MapSeq(UpperFlangeButts(ms, js),
                LAMBDA j : App(2, "Enhanced NDE conditional (Note 2)",
                               "Conditional", "joint", j.joint_id,
                               "Table 8.2.1 Note 2", "", FALSE, ""))
    ELSE <<>>

BcaType(m, category) ==
    IF _is_num(m.yield_strength_nmm2) /\ _is_num(m.thickness_mm_as_built)
    THEN lookup_table_822(_DEFAULT_TABLE_822, category,
                          m.yield_strength_nmm2, m.thickness_mm_as_built)
    ELSE "unspecified"

MembersOfRole(ms, role) == SelectSeq(ms, LAMBDA m : m.member_role = role)

\* _apply_measure_3 part (a), lines 244-270
Measure3MemberApps(ms) ==
    MapSeq(MembersOfRole(ms, "hatch_coaming_side_plate"),
           LAMBDA m : App(3, "BCA steel for hatch coaming side plate",
                          "Required", "member", m.member_id,
                          "Measure 3 - BCA requirement + Table 8.2.2",
                          BcaType(m, "hatch_coaming_side"), FALSE, ""))

\* the butt joints a Measure-3 option applies to
ButtsTouching(ms, js, roles) ==
    SelectSeq(js, LAMBDA j : /\ j.joint_type = "block_to_block_butt"
                             /\ ConnectedRoles(ms, j) \cap roles # {})

AllButts(js) == SelectSeq(js, LAMBDA j : j.joint_type = "block_to_block_butt")

\* _apply_block_shift, lines 310-355
offset_ok(choice) ==
    _is_num(choice.block_shift_offset_mm) /\ choice.block_shift_offset_mm >= 300

BlockShift(choice, ms, js) ==
    LET scope == ButtsTouching(ms, js, {"hatch_coaming_side_plate",
                                        "upper_deck_plate"})
    IN  [apps |-> MapSeq(scope,
                    LAMBDA j : App(3, "Block shift requirement", "Required",
                                   "joint", j.joint_id,
                                   "Measure 3 - block shift >= 300mm", "",
                                   offset_ok(choice), "")),
         flags |-> IF _is_num(choice.block_shift_offset_mm) /\ ~offset_ok(choice)
                   THEN MapSeq(scope,
                          LAMBDA j : Flag("block_shift_short", <<j.joint_id>>))
                   ELSE <<>>]

\* _apply_crack_arrest_hole, lines 358-390
CrackArrestHole(choice, ms, js) ==
    [apps |-> MapSeq(ButtsTouching(ms, js, {"hatch_coaming_side_plate",
                                            "upper_deck_plate"}),
                LAMBDA j : App(3, "Crack arrest hole", "Required", "joint",
                               j.joint_id, "Measure 3 - crack arrest hole",
                               "", FALSE, "")),
     flags |-> <<>>]

\* _apply_crack_arrest_insert, lines 393-424
CrackArrestInsert(choice, ms, js) ==
    [apps |-> MapSeq(ButtsTouching(ms, js, {"hatch_coaming_side_plate",
                                            "upper_deck_plate"}),
                LAMBDA j : App(3, "Crack arrest insert plate/weld metal",
                               "Required", "joint", j.joint_id,
                               "Measure 3 - crack arrest insert",
                               "", FALSE, "")),
     flags |-> <<>>]

\* _apply_enhanced_nde, lines 427-478
EnhancedNde(choice, ms, js) ==
    [apps |-> MapSeq(ButtsTouching(ms, js, {"hatch_coaming_side_plate",
                                            "upper_deck_plate",
                                            "attached_longitudinal"}),
                LAMBDA j : App(3, "Enhanced NDE with stricter acceptance",
                               "Required", "joint", j.joint_id,
                               "Measure 3 - enhanced NDE (ShipRight)",
                               "", FALSE, j.weld_process)),
     flags |-> MapSeq(SelectSeq(AllButts(js),
                                LAMBDA j : j.weld_process = "EGW"),
                LAMBDA j : Flag("egw_prohibited", <<j.joint_id>>))]

\* lines 287-295
required_params_by_option ==
    [o \in {"block_shift", "crack_arrest_hole", "crack_arrest_insert",
            "enhanced_NDE"} |->
        CASE o = "block_shift" -> <<"block_shift_offset_mm">>
          [] o = "crack_arrest_hole" -> <<"hole_diameter_mm">>
          [] o = "crack_arrest_insert" -> <<"insert_type">>
          [] OTHER -> <<"enhanced_nde_method",
                        "enhanced_nde_acceptance_criteria_ref">>]

\* an entry that leaves enhanced_NDE out of the allowed options
PendingChoiceThreeOptions ==
    [measure_id |-> 3, status |-> "pending_manual_choice",
     allowed_options |-> <<"block_shift", "crack_arrest_hole",
                           "crack_arrest_insert">>,
     required_params_by_option |-> required_params_by_option]

\* lines 276-296
PendingChoice ==
    [measure_id |-> 3, status |-> "pending_manual_choice",
     allowed_options |-> <<"block_shift", "crack_arrest_hole",
                           "crack_arrest_insert", "enhanced_NDE">>,
     required_params_by_option |-> required_params_by_option]

\* _apply_measure_3, lines 231-307
_apply_measure_3(choice, ms, js) ==
    LET sub == CASE choice.option = "block_shift" -> BlockShift(choice, ms, js)
                 [] choice.option = "crack_arrest_hole" ->
                        CrackArrestHole(choice, ms, js)
                 [] choice.option = "crack_arrest_insert" ->
                        CrackArrestInsert(choice, ms, js)
                 [] choice.option = "enhanced_NDE" -> EnhancedNde(choice, ms, js)
                 [] OTHER -> [apps |-> <<>>, flags |-> <<>>]
    IN  [apps |-> Measure3MemberApps(ms) \o sub.apps,
         flags |-> sub.flags,
         pending |-> IF choice.option = "unspecified"
                     THEN <<PendingChoice>> ELSE <<>>]

\* lines 137-194: Measure 4 and Measure 5 on the upper deck plates
UpperDeckApps(mid, name, ref, ms) ==
    MapSeq(MembersOfRole(ms, "upper_deck_plate"),
           LAMBDA m : App(mid, name, "Required", "member", m.member_id, ref,
                          BcaType(m, "upper_deck"), FALSE, ""))

\* a PJP record on every joint, whatever its type
PjpAppsEveryJoint(js) ==
    MapSeq(js,
           LAMBDA j : App(0, "LR-approved PJP weld required", "Required",
                          "joint", j.joint_id,
                          "Sec 8 - coaming side to upper deck connection",
                          "", FALSE, ""))

\* lines 197-212: PJP on every coaming-to-deck connection
PjpApps(js) ==
    MapSeq(SelectSeq(js, LAMBDA j : j.joint_type = "coaming_to_deck_connection"),
           LAMBDA j : App(0, "LR-approved PJP weld required", "Required",
                          "joint", j.joint_id,
                          "Sec 8 - coaming side to upper deck connection",
                          "", FALSE, ""))

\* lines 215-226
ThickFlags(ms) ==
    MapSeq(SelectSeq(ms, LAMBDA m : /\ _is_num(m.thickness_mm_as_built)
                                    /\ m.thickness_mm_as_built > 100),
           LAMBDA m : Flag("thick_gt100", <<m.member_id>>))

KeptApplications(old) == old

\* line 59: every call starts from an empty list
NewApplications(old) == <<>>

apply_measures(old, req, ms, js, choice) ==
    LET m3 == IF req[3] = "Required" THEN _apply_measure_3(choice, ms, js)
              ELSE [apps |-> <<>>, flags |-> <<>>, pending |-> <<>>]
    IN  [applications |->
            NewApplications(old)
            \o Measure1Apps(req, ms, js)
            \o Measure2Apps(req, ms, js, choice)
            \o m3.apps
            \o (IF req[4] = "Required"
                THEN UpperDeckApps(4, "BCA steel for upper deck plate",
                                   "Table 8.2.1 Measure 4 + Table 8.2.2", ms)
                ELSE <<>>)
            \o (IF req[5] = "Required"
                THEN UpperDeckApps(5, "BCA steel for upper deck plate (Measure 5)",
                                   "Table 8.2.1 Measure 5 + Table 8.2.2", ms)
                ELSE <<>>)
            \o PjpApps(js),
         flags |-> m3.flags \o ThickFlags(ms),
         pending |-> m3.pending]

(***************************************************************************)
(* LR: run_decision (decision_engine.py lines 230-269)                     *)
(***************************************************************************)
\* m.grade.upper().startswith("EH") over the grades of the model
StartsWithEH(grade) == grade \in {"EH36", "EH40", "EH47"}

GradeFlags(ms) ==
    MapSeq(SelectSeq(ms, LAMBDA m : /\ _is_specified_number(m.yield_strength_nmm2)
                                    /\ m.yield_strength_nmm2 = 460
                                    /\ m.grade # "unspecified"
                                    /\ ~StartsWithEH(m.grade)),
           LAMBDA m : Flag("grade_check", <<m.member_id>>))

run_decision(ms, choice, table) ==
    LET d == derive_control_parameters(ms)
        r == determine_required_measures(table, d.cp.y_control,
                                         d.cp.t_control, choice)
    IN  [cp |-> d.cp, cp_flags |-> d.flags, required |-> r.required,
         lookup_info |-> r.lookup_info,
         flags |-> d.flags \o r.flags \o GradeFlags(ms)]

(***************************************************************************)
(* SE: _append_measure and the final sort of run_decision                  *)
(***************************************************************************)
Range(s) == {s[i] : i \in 1..Len(s)}

\* lines 266-269: existing_snippets is computed once, before the loop
MergeEvidence(existing, new) ==
    existing \o SelectSeq(new, LAMBDA e : e \notin Range(existing))

\* lines 271-273
RECURSIVE MergeNotes(_, _)
MergeNotes(existing, new) ==
    IF new = <<>> THEN existing
    ELSE MergeNotes(IF Head(new) \in Range(existing) THEN existing
                    ELSE Append(existing, Head(new)),
                    Tail(new))

\* line 264: the test that makes an existing record absorb the new one
SameKey(existing, measure) ==
    /\ existing.measure_id = measure.measure_id
    /\ existing.target_id = measure.target_id

_append_measure(rs, measure) ==
    IF \E i \in 1..Len(rs) : SameKey(rs[i], measure)
    THEN LET i == CHOOSE k \in 1..Len(rs) :
                     /\ SameKey(rs[k], measure)
                     /\ \A h \in 1..(k-1) : ~SameKey(rs[h], measure)
         IN  [rs EXCEPT ![i] =
                 [@ EXCEPT !.evidence = MergeEvidence(@, measure.evidence),
                           !.notes = MergeNotes(@, measure.notes)]]
    ELSE Append(rs, measure)

\* line 852: results_list.sort(key=lambda am: (am.target_id, am.measure_id))
SortKeyLess(a, b) ==
    \/ a.target_id < b.target_id
    \/ a.target_id = b.target_id /\ a.measure_id < b.measure_id

\* insertion into a sorted list behind the records that are not greater
\* (list.sort is stable)
RECURSIVE InsertSorted(_, _)
InsertSorted(sorted, x) ==
    IF sorted = <<>> THEN <<x>>
    ELSE IF SortKeyLess(x, Head(sorted)) THEN <<x>> \o sorted
    ELSE <<Head(sorted)>> \o InsertSorted(Tail(sorted), x)

RECURSIVE SortApplied(_, _)
SortApplied(rs, acc) ==
    IF rs = <<>> THEN acc
    ELSE SortApplied(Tail(rs), InsertSorted(acc, Head(rs)))

(***************************************************************************)
(* SE: measure application functions and run_decision                      *)
(* (services/engine/decision_engine.py lines 283-865)                      *)
(***************************************************************************)
\* the mapping configuration: {} when configs/mapping_rules.json is absent
\* (line 49), else the roles the file lists
Mappings ==
    { [upper_flange_long_member_roles |-> {}],
      [upper_flange_long_member_roles |-> _UPPER_FLANGE_ROLES] }

\* rules.rule_clauses is empty: no clause evidence is attached
SEApplied(mid, status, tid, ttype, reqs, notes) ==
    [measure_id |-> mid, status |-> status, target_id |-> tid,
     target_type |-> ttype, requirements |-> reqs, notes |-> notes,
     evidence |-> <<>>]

RECURSIVE Concat(_)
Concat(ss) == IF ss = <<>> THEN <<>> ELSE Head(ss) \o Concat(Tail(ss))

\* results = _append_measure(results, r) for every r of recs, in order
RECURSIVE AppendAll(_, _)
AppendAll(rs, recs) ==
    IF recs = <<>> THEN rs
    ELSE AppendAll(_append_measure(rs, Head(recs)), Tail(recs))

\* _lookup_bca_type, lines 205-221, over the built-in Table 8.2.2
RECURSIVE _lookup_bca_type(_, _, _, _)
_lookup_bca_type(table, structural_member, yield_strength, thickness) ==
    IF table = <<>> THEN "unspecified"
    ELSE LET row == Head(table)
             d == row.yield_strength_nmm2 - yield_strength
         IN  IF /\ row.member_category = structural_member
                /\ (d < 10 /\ -d < 10)
                /\ row.t_min_mm < thickness /\ thickness <= row.t_max_mm
             THEN row.bca_type
             ELSE _lookup_bca_type(Tail(table), structural_member,
                                   yield_strength, thickness)

SEBcaType(m, category) ==
    IF ~is_unspecified(m.yield_strength_nmm2)
       /\ ~is_unspecified(m.thickness_mm_as_built)
    THEN _lookup_bca_type(_DEFAULT_TABLE_822, category,
                          m.yield_strength_nmm2, m.thickness_mm_as_built)
    ELSE "unspecified"

\* lines 327-332: one connected member that exists and has an upper role
se_connected_upper(ms, j, mapping) ==
    \E i \in 1..Len(j.connected_members) :
        /\ j.connected_members[i] \in MemberIds(ms)
        /\ MemberMap(ms, j.connected_members[i]).member_role
              \in mapping.upper_flange_long_member_roles

\* lines 336-339
se_any_unknown(ms, j) ==
    \E i \in 1..Len(j.connected_members) :
        /\ j.connected_members[i] \in MemberIds(ms)
        /\ MemberMap(ms, j.connected_members[i]).member_role = "unknown"

\* what _apply_measure_1 does with one joint: "unspec", "role", "applied"
\* or "skip"
SEMeasure1Case(ms, j, mapping) ==
    IF j.zone = "unspecified" THEN "unspec"
    ELSE IF j.joint_type # "block_to_block_butt" THEN "skip"
    ELSE IF j.zone # "cargo_hold_region" THEN "skip"
    ELSE IF ~se_connected_upper(ms, j, mapping) /\ j.connected_members # <<>>
    THEN IF se_any_unknown(ms, j) THEN "role" ELSE "skip"
    ELSE IF se_connected_upper(ms, j, mapping) THEN "applied"
    ELSE "skip"

\* _apply_measure_1, lines 283-369
se_apply_measure_1(ms, js, mapping, rs, fs) ==
    LET case(j) == SEMeasure1Case(ms, j, mapping)
        rec(j) ==
            CASE case(j) = "unspec" ->
                    <<SEApplied(1, "pending_manual_review", j.joint_id, "joint",
                                <<"NDE: UT 100% (pending manual review)">>,
                                <<"Joint type or zone is unspecified">>)>>
              [] case(j) = "role" ->
                    <<SEApplied(1, "pending_manual_review", j.joint_id, "joint",
                                <<"NDE: UT 100% (pending - member role unclear)">>,
                                <<>>)>>
              [] case(j) = "applied" ->
                    <<SEApplied(1, "applied", j.joint_id, "joint",
                                <<"NDE: UT 100% of block-to-block butt welds">>,
                                <<>>)>>
              [] OTHER -> <<>>
        flag(j) ==
            CASE case(j) = "unspec" -> <<Flag("M1-UNSPEC", <<j.joint_id>>)>>
              [] case(j) = "role" -> <<Flag("M1-ROLE", <<j.joint_id>>)>>
              [] OTHER -> <<>>
    IN  [results |-> AppendAll(rs, Concat([i \in 1..Len(js) |-> rec(js[i])])),
         flags |-> fs \o Concat([i \in 1..Len(js) |-> flag(js[i])])]

\* the records and flags of one pass over the block-to-block butt joints
SEButtPass(js, rs, fs, rec(_), flag(_)) ==
    LET butts == AllButts(js)
    IN  [results |-> AppendAll(rs, [i \in 1..Len(butts) |-> rec(butts[i])]),
         flags |-> fs \o Concat([i \in 1..Len(butts) |-> flag(butts[i])])]

\* _apply_m3_block_shift, lines 451-510
se_apply_m3_block_shift(choice, js, rs, fs) ==
    LET offset == choice.block_shift_offset_mm
        pass == offset >= 300
    IN  IF is_unspecified(offset)
        THEN LET r == SEButtPass(js, rs, fs,
                        LAMBDA j : SEApplied(3, "pending_manual_review",
                                      j.joint_id, "joint",
                                      <<"Block shift: offset unspecified">>,
                                      <<"block_shift_offset_mm is unspecified">>),
                        LAMBDA j : <<>>)
             IN  [results |-> r.results,
                  flags |-> Append(r.flags, SEFlag("M3-BS-OFFSET"))]
        ELSE SEButtPass(js, rs, fs,
                LAMBDA j : SEApplied(3, "applied", j.joint_id, "joint",
                              <<IF pass THEN "Block shift: PASS"
                                ELSE "Block shift: FAIL">>,
                              IF pass THEN <<>> ELSE <<"NONCOMPLIANCE">>),
                LAMBDA j : IF pass THEN <<>>
                           ELSE <<Flag("M3-BS-FAIL", <<j.joint_id>>)>>)

\* _apply_m3_crack_arrest_hole, lines 513-535
se_apply_m3_crack_arrest_hole(choice, js, rs, fs) ==
    SEButtPass(js, rs, fs,
        LAMBDA j : SEApplied(3, "applied", j.joint_id, "joint",
                      <<"Crack arrest hole fitted",
                        "Fatigue strength: special assessment REQUIRED">>, <<>>),
        LAMBDA j : <<>>)

\* _apply_m3_crack_arrest_insert, lines 538-553
se_apply_m3_crack_arrest_insert(choice, js, rs, fs) ==
    SEButtPass(js, rs, fs,
        LAMBDA j : SEApplied(3, "applied", j.joint_id, "joint",
                      <<"Crack arrest insert applied",
                        "Insert plate or weld metal insert">>, <<>>),
        LAMBDA j : <<>>)

\* _apply_m3_enhanced_nde, lines 556-608; egw_permitted_with_enhanced_nde
\* keeps its default False
se_apply_m3_enhanced_nde(choice, js, rs, fs) ==
    LET no_ref == choice.enhanced_nde_acceptance_criteria_ref = "unspecified"
    IN  SEButtPass(js, rs, fs,
            LAMBDA j : SEApplied(3, IF no_ref THEN "conditional" ELSE "applied",
                          j.joint_id, "joint",
                          <<"Enhanced NDE method", "Stricter acceptance criteria",
                            "CTOD required", "EGW is NOT permitted">>,
                          (IF no_ref THEN <<"acceptance criteria unspecified">>
                           ELSE <<>>)
                          \o (IF j.weld_process = "EGW"
                              THEN <<"NONCOMPLIANCE">> ELSE <<>>)),
            LAMBDA j : (IF no_ref THEN <<Flag("M3-ENDE-REF", <<j.joint_id>>)>>
                        ELSE <<>>)
                       \o (IF j.weld_process = "EGW"
                           THEN <<Flag("M3-EGW", <<j.joint_id>>)>> ELSE <<>>))

\* _apply_measure_3, lines 372-448
se_apply_measure_3(ms, js, choice, rs, fs) ==
    LET sides == SelectSeq(ms, LAMBDA m :
                    /\ m.member_role = "hatch_coaming_side_plate"
                    /\ (m.zone = "cargo_hold_region" \/ is_unspecified_zone(m.zone)))
        partA == AppendAll(rs,
                    [i \in 1..Len(sides) |->
                        SEApplied(3, "applied", sides[i].member_id, "member",
                            <<"Provide BCA steel",
                              SEBcaType(sides[i], "hatch_coaming_side")>>, <<>>)])
    IN  CASE choice.option = "unspecified" ->
                SEButtPass(js, partA, Append(fs, SEFlag("M3-OPT-UNSPEC")),
                    LAMBDA j : SEApplied(3, "pending_manual_choice", j.joint_id,
                                  "joint", <<"Measure 3 option not selected">>,
                                  <<"Available options listed for user selection">>),
                    LAMBDA j : <<>>)
          [] choice.option = "block_shift" ->
                se_apply_m3_block_shift(choice, js, partA, fs)
          [] choice.option = "crack_arrest_hole" ->
                se_apply_m3_crack_arrest_hole(choice, js, partA, fs)
          [] choice.option = "crack_arrest_insert" ->
                se_apply_m3_crack_arrest_insert(choice, js, partA, fs)
          [] choice.option = "enhanced_NDE" ->
                se_apply_m3_enhanced_nde(choice, js, partA, fs)

\* _apply_measure_4 and _apply_measure_5, lines 611-682
se_apply_measure_4_5(mid, ms, rs) ==
    LET decks == SelectSeq(ms, LAMBDA m :
                    /\ m.member_role = "upper_deck_plate"
                    /\ ~(~is_unspecified_zone(m.zone)
                         /\ m.zone # "cargo_hold_region"))
    IN  AppendAll(rs,
            [i \in 1..Len(decks) |->
                SEApplied(mid, "applied", decks[i].member_id, "member",
                    <<"Provide BCA steel", SEBcaType(decks[i], "upper_deck")>>,
                    <<>>)])

\* _apply_measure_2, lines 685-722
se_apply_measure_2(js, choice, rs, row) ==
    IF row = NoRow THEN rs
    ELSE IF row.measure_2 # "See Note 2" THEN rs
    ELSE IF choice.option # "enhanced_NDE" THEN rs
    ELSE LET butts == AllButts(js)
         IN  AppendAll(rs,
                [i \in 1..Len(butts) |->
                    SEApplied(2, "conditional", butts[i].joint_id, "joint",
                        <<"Periodic in-service NDE required">>,
                        <<"Conditional per Note 2">>)])

\* line 752-756: "enhanced NDE" is searched in a lower-cased string, where
\* the capitals of NDE never occur
has_enhanced_nde(rs, j) == FALSE

\* _apply_weld_detail_rules, lines 725-765
se_apply_weld_detail_rules(js, rs, fs) ==
    LET pjp == SelectSeq(js, LAMBDA j :
                    j.joint_type = "coaming_to_deck_connection")
        egw == SelectSeq(js, LAMBDA j :
                    j.weld_process = "EGW" /\ has_enhanced_nde(rs, j))
    IN  [results |-> AppendAll(rs,
            [i \in 1..Len(pjp) |->
                SEApplied(0, "applied", pjp[i].joint_id, "joint",
                    <<"LR-approved PJP welding REQUIRED">>,
                    <<"Welding detail rule">>)]),
         flags |-> fs \o [i \in 1..Len(egw) |->
                            Flag("EGW-NC", <<egw[i].joint_id>>)]]

\* _check_special_consideration, lines 772-787, threshold 100 mm
se_check_special_consideration(ms, fs) ==
    LET thick == SelectSeq(ms, LAMBDA m :
                    /\ ~is_unspecified(m.thickness_mm_as_built)
                    /\ m.thickness_mm_as_built > 100)
    IN  fs \o [i \in 1..Len(thick) |-> Flag("SPECIAL", <<thick[i].member_id>>)]

\* _expand_required_measures, lines 184-198; the 3+4 cell fills m3 and m4
_expand_required_measures(row) ==
    {m \in MeasureIds :
        CASE m = 1 -> row.measure_1 = "Required"
          [] m = 2 -> row.measure_2 = "Required"
          [] m = 3 -> row.measure_3_and_4 = "Required"
          [] m = 4 -> row.measure_3_and_4 = "Required"
          [] m = 5 -> row.measure_5 = "Required"}

\* run_decision, lines 801-823: control values, the table lookup, the set of
\* required measures and the flags raised so far
se_lookup_context(ms, table) ==
    LET d == _derive_control_values(ms)
        both == /\ ~is_unspecified(d.cv.y_control_nmm2)
                /\ ~is_unspecified(d.cv.t_control_mm)
        lk == IF both
              THEN _lookup_table_821(table, d.cv.y_control_nmm2,
                                     d.cv.t_control_mm)
              ELSE [row |-> NoRow, flags |-> <<>>]
    IN  [cv |-> d.cv, row |-> lk.row,
         M |-> IF lk.row # NoRow THEN _expand_required_measures(lk.row) ELSE {},
         flags |-> d.flags \o lk.flags
                   \o (IF lk.row = NoRow /\ both
                       THEN <<SEFlag("T821-NO-MATCH")>> ELSE <<>>)]

\* run_decision, lines 829-851: the k-th call of the fixed order 1, 3, 4, 5,
\* 2, weld details, special consideration, on the results and flags so far
se_stage(k, ctx, ms, js, choice, mapping, st) ==
    CASE k = 1 -> IF 1 \in ctx.M
                  THEN se_apply_measure_1(ms, js, mapping, st.results, st.flags)
                  ELSE st
      [] k = 2 -> IF 3 \in ctx.M
                  THEN se_apply_measure_3(ms, js, choice, st.results, st.flags)
                  ELSE st
      [] k = 3 -> IF 4 \in ctx.M
                  THEN [st EXCEPT !.results = se_apply_measure_4_5(4, ms, @)]
                  ELSE st
      [] k = 4 -> IF 5 \in ctx.M
                  THEN [st EXCEPT !.results = se_apply_measure_4_5(5, ms, @)]
                  ELSE st
      [] k = 5 -> [st EXCEPT
                     !.results = se_apply_measure_2(js, choice, @, ctx.row)]
      [] k = 6 -> se_apply_weld_detail_rules(js, st.results, st.flags)
      [] OTHER -> [st EXCEPT
                     !.flags = se_check_special_consideration(ms, @)]

SEStages == 7

RECURSIVE se_stages(_, _, _, _, _, _, _)
se_stages(k, ctx, ms, js, choice, mapping, st) ==
    IF k > SEStages THEN st
    ELSE se_stages(k + 1, ctx, ms, js, choice, mapping,
                   se_stage(k, ctx, ms, js, choice, mapping, st))

\* lines 853-865: the records sorted by (target_id, measure_id)
se_results(ctx, mapping, st) ==
    [cv |-> ctx.cv, row |-> ctx.row, required_measures_global |-> ctx.M,
     mapping |-> mapping,
     applied_measures |-> SortApplied(st.results, <<>>),
     manual_review_flags |-> st.flags]

\* run_decision, lines 794-865
se_run_decision(ms, js, choice, table, mapping) ==
    se_results(se_lookup_context(ms, table), mapping,
               se_stages(1, se_lookup_context(ms, table), ms, js, choice,
                         mapping,
                         [results |-> <<>>,
                          flags |-> se_lookup_context(ms, table).flags]))

(***************************************************************************)
(* Inputs                                                                  *)
(***************************************************************************)
Member(role, y, t, grade, zone) ==
    [member_id |-> 0, member_role |-> role, yield_strength_nmm2 |-> y,
     grade |-> grade, thickness_mm_as_built |-> t, zone |-> zone]

Joint(type, zone, conn, weld) ==
    [joint_id |-> 0, joint_type |-> type, connected_members |-> conn,
     zone |-> zone, weld_process |-> weld]

\* the lists of at most n elements of S
SeqsUpTo(S, n) == UNION {[1..k -> S] : k \in 0..n}

\* member ids are the odd ranks, joint ids the even ranks, in list order
WithMemberIds(ms) == [i \in 1..Len(ms) |-> [ms[i] EXCEPT !.member_id = 2*i - 1]]
WithJointIds(js) == [i \in 1..Len(js) |-> [js[i] EXCEPT !.joint_id = 2*i]]

CtlMembers ==
    {Member(role, y, t, "EH36", "cargo_hold_region") :
        role \in {"hatch_coaming_side_plate", "hatch_coaming_top_plate",
                  "upper_deck_plate"},
        y \in {UNSPECIFIED, 355, 460},
        t \in {UNSPECIFIED, 50, 90}}

PipeMembers ==
    {Member(role, 390, t, "EH40", "cargo_hold_region") :
        role \in {"hatch_coaming_side_plate", "upper_deck_plate"},
        t \in {UNSPECIFIED, 60, 90}}

PipeJoints ==
    { Joint("block_to_block_butt", "cargo_hold_region", <<1, 3>>, "FCAW"),
      Joint("block_to_block_butt", "cargo_hold_region", <<1>>, "EGW"),
      Joint("block_to_block_butt", "outside_cargo_hold", <<3>>, "FCAW"),
      Joint("coaming_to_deck_connection", "cargo_hold_region", <<1, 3>>, "FCAW") }

Choice(option, offset) ==
    [option |-> option, block_shift_offset_mm |-> offset,
     hole_diameter_mm |-> UNSPECIFIED, insert_type |-> "unspecified",
     enhanced_nde_method |-> "unspecified",
     enhanced_nde_acceptance_criteria_ref |-> "unspecified"]

Choices ==
    {Choice(o, UNSPECIFIED) : o \in Measure3Option}
    \cup {Choice("block_shift", off) : off \in {250, 300}}

\* a table whose first row starts at 0 and overlaps the next one, one without
\* the 355 rows, and the built-in table
Tables ==
    { _DEFAULT_TABLE_821,
      <<>>,
      << Row(390, 0, 50, "Required", "Not required", "Not required", "Not required"),
         Row(390, 40, 100, "Required", "See Note 2", "Required", "Required"),
         Row(460, 50, 100, "Required", "Required", "Required", "Not required") >> }

\* members of one run: coaming side plates of 60 and 110 mm, a 45 mm side
\* plate and a deck plate outside the cargo hold, a deck plate and a member
\* of role other
RunMembers ==
    { Member("hatch_coaming_side_plate", 390, 60, "EH40", "cargo_hold_region"),
      Member("hatch_coaming_side_plate", 390, 110, "EH40", "cargo_hold_region"),
      Member("hatch_coaming_side_plate", 390, 45, "EH40", "outside_cargo_hold"),
      Member("upper_deck_plate", 390, 60, "EH40", "cargo_hold_region"),
      Member("upper_deck_plate", 390, 60, "EH40", "outside_cargo_hold"),
      Member("other", 390, 60, "EH40", "cargo_hold_region") }

\* the built-in table, an empty table, and a table whose measure-2 cell is
\* literally Required and which has no row for 45 mm
RunTables ==
    { _DEFAULT_TABLE_821,
      <<>>,
      << Row(390, 50, 100, "Required", "Required", "Required", "Required") >> }

RunChoices == {Choice(o, UNSPECIFIED) : o \in Measure3Option}

\* the joints of one run, in the order of the input file
RunJoints ==
    << Joint("block_to_block_butt", "cargo_hold_region", <<1, 3>>, "FCAW"),
       Joint("block_to_block_butt", "cargo_hold_region", <<1>>, "EGW"),
       Joint("block_to_block_butt", "outside_cargo_hold", <<3>>, "FCAW"),
       Joint("coaming_to_deck_connection", "cargo_hold_region", <<1, 3>>, "FCAW") >>

\* the k-th smallest element of a set of numbers
KthOf(I, k) == CHOOSE i \in I : Cardinality({j \in I : j < i}) = k - 1

\* the sublists of at most n elements of the list s, in the order of s
SubSeqsUpTo(s, n) ==
    {[k \in 1..Cardinality(I) |-> s[KthOf(I, k)]] :
        I \in {J \in SUBSET (1..Len(s)) : Cardinality(J) <= n}}

Yields == {355, 390, 460}

Thicknesses == {0, 30, 40, 41, 50, 65, 70, 85, 100, 101, 110}

(***************************************************************************)
(* State before any call                                                   *)
(***************************************************************************)
NoCP == [none |-> TRUE]
NoRequired == [m \in MeasureIds |-> "unset"]
NoArgs == [table |-> <<>>, yield_strength |-> 0, thickness |-> 0]
NotLooked == [pending |-> TRUE]
NotRun == [pending |-> TRUE]

Idle ==
    /\ members = <<>>
    /\ joints = <<>>
    /\ measure3_choice = Choice("unspecified", UNSPECIFIED)
    /\ table_821 = <<>>
    /\ y_control = UNSPECIFIED
    /\ t_control = UNSPECIFIED
    /\ lk_args = NoArgs

Fresh ==
    /\ cp = NoCP
    /\ cp_flags = <<>>
    /\ cv = NoCP
    /\ cv_flags = <<>>
    /\ required_measures = NoRequired
    /\ lookup_info = NoLookupInfo
    /\ decision_flags = <<>>
    /\ applications = <<>>
    /\ app_flags = <<>>
    /\ pending = <<>>
    /\ lk_row = NotLooked
    /\ se_lookup = NotLooked
    /\ se_run = NotRun
    /\ results = <<>>
    /\ inserted = <<>>
    /\ prev_applications = <<>>
    /\ run = 1

inputs == <<members, joints, measure3_choice, table_821, y_control,
            t_control, lk_args>>

(***************************************************************************)
(* Control parameters: derive_control_parameters and                       *)
(* _derive_control_values applied to one member list                       *)
(***************************************************************************)
InitCtl ==
    /\ Fresh
    /\ pc = "ctl"
    /\ members \in {WithMemberIds(ms) : ms \in SeqsUpTo(CtlMembers, MaxCtlMembers)}
    /\ joints = <<>>
    /\ measure3_choice = Choice("unspecified", UNSPECIFIED)
    /\ table_821 = <<>>
    /\ y_control = UNSPECIFIED
    /\ t_control = UNSPECIFIED
    /\ lk_args = NoArgs

DeriveControlParameters ==
    /\ pc = "ctl"
    /\ cp = NoCP
    /\ LET d == derive_control_parameters(members)
       IN  /\ cp' = d.cp
           /\ cp_flags' = d.flags
    /\ UNCHANGED <<inputs, cv, cv_flags, required_measures, lookup_info,
                   decision_flags, applications, app_flags, pending, lk_row, se_lookup, se_run,
                   results, inserted, prev_applications, run, pc>>

DeriveControlValues ==
    /\ pc = "ctl"
    /\ cv = NoCP
    /\ LET d == _derive_control_values(members)
       IN  /\ cv' = d.cv
           /\ cv_flags' = d.flags
    /\ UNCHANGED <<inputs, cp, cp_flags, required_measures, lookup_info,
                   decision_flags, applications, app_flags, pending, lk_row, se_lookup, se_run,
                   results, inserted, prev_applications, run, pc>>

NextCtl == DeriveControlParameters \/ DeriveControlValues

SpecCtl == InitCtl /\ [][NextCtl]_vars

(***************************************************************************)
(* Table lookup: lookup_table_821 applied to one (table, yield, thickness) *)
(***************************************************************************)
InitLookup ==
    /\ Fresh
    /\ pc = "lookup"
    /\ members = <<>>
    /\ joints = <<>>
    /\ measure3_choice = Choice("unspecified", UNSPECIFIED)
    /\ table_821 = <<>>
    /\ y_control = UNSPECIFIED
    /\ t_control = UNSPECIFIED
    /\ lk_args \in [table : Tables, yield_strength : Yields \cup {400},
                    thickness : Thicknesses]

LookupTable821 ==
    /\ pc = "lookup"
    /\ lk_row = NotLooked
    /\ lk_row' = lookup_table_821(lk_args.table, lk_args.yield_strength,
                                  lk_args.thickness)
    /\ UNCHANGED <<inputs, cp, cp_flags, cv, cv_flags, required_measures,
                   lookup_info, decision_flags, applications, app_flags,
                   pending, se_lookup, se_run, results, inserted, prev_applications,
                   run, pc>>

\* SE: the control thickness comes from members whose thickness passed
\* validate_thickness (rules_db.py), so it is positive
LookupTable821SE ==
    /\ pc = "lookup"
    /\ se_lookup = NotLooked
    /\ lk_args.thickness > 0
    /\ se_lookup' = _lookup_table_821(lk_args.table, lk_args.yield_strength,
                                      lk_args.thickness)
    /\ UNCHANGED <<inputs, cp, cp_flags, cv, cv_flags, required_measures,
                   lookup_info, decision_flags, applications, app_flags,
                   pending, lk_row, se_run, results, inserted,
                   prev_applications, run, pc>>

NextLookup == LookupTable821 \/ LookupTable821SE

SpecLookup == InitLookup /\ [][NextLookup]_vars

(***************************************************************************)
(* Required measures: determine_required_measures applied to one           *)
(* (table, y_control, t_control, measure3_choice)                          *)
(***************************************************************************)
\* the tables of the lookups and one whose bundled 3+4 cell is neither
\* Required nor Not required
ReqTables ==
    Tables \cup
    { << Row(390, 0, 50, "Required", "Not required", "Conditional", "Required"),
         Row(390, 50, 100, "Required", "See Note 2", "Required", "Required") >> }

InitReq ==
    /\ Fresh
    /\ pc = "req"
    /\ members = <<>>
    /\ joints = <<>>
    /\ measure3_choice \in {Choice(o, UNSPECIFIED) : o \in Measure3Option}
    /\ table_821 \in ReqTables
    /\ y_control \in Yields \cup {400, UNSPECIFIED}
    /\ t_control \in Thicknesses \cup {UNSPECIFIED}
    /\ lk_args = NoArgs

DetermineRequiredMeasures ==
    /\ pc = "req"
    /\ LET r == determine_required_measures(table_821, y_control, t_control,
                                            measure3_choice)
       IN  /\ required_measures' = r.required
           /\ lookup_info' = r.lookup_info
           /\ decision_flags' = r.flags
    /\ pc' = "determined"
    /\ UNCHANGED <<inputs, cp, cp_flags, cv, cv_flags, applications,
                   app_flags, pending, lk_row, se_lookup, se_run, results, inserted,
                   prev_applications, run>>

NextReq == DetermineRequiredMeasures

SpecReq == InitReq /\ [][NextReq]_vars

(***************************************************************************)
(* Pipeline: run_pipeline steps 3 and 4, run MaxRuns times on one input    *)
(***************************************************************************)
InitPipe ==
    /\ Fresh
    /\ pc = "start"
    /\ members \in {WithMemberIds(ms) : ms \in SeqsUpTo(PipeMembers, MaxMembers)}
    /\ joints \in {WithJointIds(js) : js \in SeqsUpTo(PipeJoints, MaxJoints)}
    /\ measure3_choice \in Choices
    /\ table_821 = _DEFAULT_TABLE_821
    /\ y_control = UNSPECIFIED
    /\ t_control = UNSPECIFIED
    /\ lk_args = NoArgs

\* pipeline.py lines 62-65
RunDecision ==
    /\ pc = "start"
    /\ LET d == run_decision(members, measure3_choice, table_821)
       IN  /\ cp' = d.cp
           /\ cp_flags' = d.cp_flags
           /\ required_measures' = d.required
           /\ lookup_info' = d.lookup_info
           /\ decision_flags' = d.flags
    /\ pc' = "decided"
    /\ UNCHANGED <<inputs, cv, cv_flags, applications, app_flags, pending,
                   lk_row, se_lookup, se_run, results, inserted, prev_applications, run>>

\* pipeline.py lines 69-76
ApplyMeasures ==
    /\ pc = "decided"
    /\ LET a == apply_measures(applications, required_measures, members,
                               joints, measure3_choice)
       IN  /\ applications' = a.applications
           /\ app_flags' = a.flags
           /\ pending' = a.pending
    /\ pc' = "applied"
    /\ UNCHANGED <<inputs, cp, cp_flags, cv, cv_flags, required_measures,
                   lookup_info, decision_flags, lk_row, se_lookup, se_run, results, inserted,
                   prev_applications, run>>

\* run_pipeline is called again on the same input
RunAgain ==
    /\ pc = "applied"
    /\ run < MaxRuns
    /\ run' = run + 1
    /\ prev_applications' = applications
    /\ pc' = "start"
    /\ UNCHANGED <<inputs, cp, cp_flags, cv, cv_flags, required_measures,
                   lookup_info, decision_flags, applications, app_flags,
                   pending, lk_row, se_lookup, se_run, results, inserted>>

NextPipe == RunDecision \/ ApplyMeasures \/ RunAgain

SpecPipe == InitPipe /\ [][NextPipe]_vars

(***************************************************************************)
(* One run of each engine on the same input: run_decision + apply_measures *)
(* (LR) and run_decision (SE)                                              *)
(***************************************************************************)
InitRun ==
    /\ Fresh
    /\ pc = "start"
    /\ members \in {WithMemberIds(ms) : ms \in SeqsUpTo(RunMembers, MaxRunMembers)}
    /\ joints \in {WithJointIds(js) : js \in SubSeqsUpTo(RunJoints, MaxRunJoints)}
    /\ measure3_choice \in RunChoices
    /\ table_821 \in RunTables
    /\ y_control = UNSPECIFIED
    /\ t_control = UNSPECIFIED
    /\ lk_args = NoArgs

\* SE run_decision; the mapping is what _load_mapping_rules reads at the call
RunDecisionSE ==
    /\ pc = "start"
    /\ \E mapping \in Mappings :
          se_run' = se_run_decision(members, joints, measure3_choice,
                                    table_821, mapping)
    /\ pc' = "se_decided"
    /\ UNCHANGED <<inputs, cp, cp_flags, cv, cv_flags, required_measures,
                   lookup_info, decision_flags, applications, app_flags,
                   pending, lk_row, se_lookup, results, inserted,
                   prev_applications, run>>

NextRun == RunDecision \/ ApplyMeasures \/ RunDecisionSE

SpecRun == InitRun /\ [][NextRun]_vars

(***************************************************************************)
(* Accumulator: _append_measure applied to a sequence of records, then     *)
(* the final sort                                                          *)
(***************************************************************************)
Applied(mid, ttype, tid, status, notes, evidence) ==
    [measure_id |-> mid, status |-> status, target_id |-> tid,
     target_type |-> ttype, requirements |-> <<"req">>, notes |-> notes,
     evidence |-> evidence]

AccMeasures ==
    {Applied(mid, ttype, tid, status, notes, ev) :
        mid \in {1, 3}, ttype \in {"member", "joint"}, tid \in {1, 2},
        status \in {"applied", "pending_manual_review"},
        notes \in {<<>>, <<"note1">>}, ev \in {<<"snippet1">>}}

InitAcc ==
    /\ Fresh
    /\ Idle
    /\ pc = "accumulate"

AppendMeasure ==
    /\ pc = "accumulate"
    /\ Len(inserted) < MaxInserts
    /\ \E m \in AccMeasures :
        /\ results' = _append_measure(results, m)
        /\ inserted' = Append(inserted, m)
    /\ UNCHANGED <<inputs, cp, cp_flags, cv, cv_flags, required_measures,
                   lookup_info, decision_flags, applications, app_flags,
                   pending, lk_row, se_lookup, se_run, prev_applications, run, pc>>

SortResults ==
    /\ pc = "accumulate"
    /\ results' = SortApplied(results, <<>>)
    /\ pc' = "sorted"
    /\ UNCHANGED <<inputs, cp, cp_flags, cv, cv_flags, required_measures,
                   lookup_info, decision_flags, applications, app_flags,
                   pending, lk_row, se_lookup, se_run, inserted, prev_applications, run>>

NextAcc == AppendMeasure \/ SortResults

SpecAcc == InitAcc /\ [][NextAcc]_vars

(***************************************************************************)
(* SE: _append_measure on records that differ in every field of a record   *)
(***************************************************************************)
\* AppliedMeasure, rules_db.py lines 264-275
FullApplied(mid, tid, status, reqs, notes, nc) ==
    [measure_id |-> mid, status |-> status, target_id |-> tid,
     target_type |-> "joint", requirements |-> reqs, notes |-> notes,
     evidence |-> <<>>, noncompliance |-> nc]

MergeMeasures ==
    {FullApplied(3, tid, status, reqs, notes, nc) :
        tid \in {2, 4},
        status \in {"required", "conditional", "pending_manual_choice"},
        reqs \in {<<"requirement A">>, <<"requirement B">>},
        notes \in {<<>>, <<"note1">>},
        nc \in BOOLEAN}

InitMerge ==
    /\ Fresh
    /\ Idle
    /\ pc = "merge"

\* one call results = _append_measure(results, measure)
MergeMeasure ==
    /\ pc = "merge"
    /\ Len(inserted) < MaxMergeInserts
    /\ \E m \in MergeMeasures :
        /\ results' = _append_measure(results, m)
        /\ inserted' = Append(inserted, m)
    /\ UNCHANGED <<inputs, cp, cp_flags, cv, cv_flags, required_measures,
                   lookup_info, decision_flags, applications, app_flags,
                   pending, lk_row, se_lookup, se_run, prev_applications, run, pc>>

NextMerge == MergeMeasure

SpecMerge == InitMerge /\ [][NextMerge]_vars

(***************************************************************************)
(* One run, stage by stage: LR run_pipeline (run_decision, then the blocks *)
(* of apply_measures) and SE run_decision.  pc names the next stage.       *)
(***************************************************************************)
\* LR: decision_engine.run_decision lines 239-246, measure_applicator
\* apply_measures lines 65-228 in textual order, pipeline.py lines 78-87
StageOrderLR ==
    <<"lr_derive", "lr_lookup", "lr_m1", "lr_m2", "lr_m3", "lr_m4", "lr_m5",
      "lr_always_on", "lr_finalize", "lr_done">>

\* SE: run_decision lines 804-865 in textual order
StageOrderSE ==
    <<"se_derive", "se_lookup", "se_m1", "se_m3", "se_m4", "se_m5", "se_m2",
      "se_always_on", "se_finalize", "se_done">>

IndexOf(order, name) == CHOOSE i \in 1..Len(order) : order[i] = name

\* straight-line code: control passes to the statement that follows
NextStage(order, name) == order[IndexOf(order, name) + 1]

InitStages ==
    /\ Fresh
    /\ pc \in {"lr_derive", "se_derive"}
    /\ members \in {WithMemberIds(ms) : ms \in SeqsUpTo(RunMembers, MaxStageMembers)}
    /\ joints \in {WithJointIds(js) : js \in SubSeqsUpTo(RunJoints, MaxStageJoints)}
    /\ measure3_choice \in RunChoices
    /\ table_821 \in RunTables
    /\ y_control = UNSPECIFIED
    /\ t_control = UNSPECIFIED
    /\ lk_args = NoArgs

\* decision_engine.py line 239
LRDerive ==
    /\ pc = "lr_derive"
    /\ LET d == derive_control_parameters(members)
       IN  /\ cp' = d.cp
           /\ cp_flags' = d.flags
    /\ pc' = NextStage(StageOrderLR, pc)
    /\ UNCHANGED <<inputs, cv, cv_flags, required_measures, lookup_info,
                   decision_flags, applications, app_flags, pending, lk_row,
                   se_lookup, se_run, results, inserted, prev_applications,
                   run>>

\* decision_engine.py lines 241-269
LRLookup ==
    /\ pc = "lr_lookup"
    /\ LET r == determine_required_measures(table_821, cp.y_control,
                                            cp.t_control, measure3_choice)
       IN  /\ required_measures' = r.required
           /\ lookup_info' = r.lookup_info
           /\ decision_flags' = cp_flags \o r.flags \o GradeFlags(members)
    /\ pc' = NextStage(StageOrderLR, pc)
    /\ UNCHANGED <<inputs, cp, cp_flags, cv, cv_flags, applications,
                   app_flags, pending, lk_row, se_lookup, se_run, results,
                   inserted, prev_applications, run>>

\* one block of apply_measures appending to applications, flags and pending
LRBlock(stage, apps, flags, pend) ==
    /\ pc = stage
    /\ applications' = applications \o apps
    /\ app_flags' = app_flags \o flags
    /\ pending' = pending \o pend
    /\ pc' = NextStage(StageOrderLR, pc)
    /\ UNCHANGED <<inputs, cp, cp_flags, cv, cv_flags, required_measures,
                   lookup_info, decision_flags, lk_row, se_lookup, se_run,
                   results, inserted, prev_applications, run>>

\* measure_applicator.py lines 65-95
LRMeasure1 ==
    LRBlock("lr_m1", Measure1Apps(required_measures, members, joints),
            <<>>, <<>>)

\* lines 97-127
LRMeasure2 ==
    LRBlock("lr_m2",
            Measure2Apps(required_measures, members, joints, measure3_choice),
            <<>>, <<>>)

\* lines 129-134
LRMeasure3 ==
    LET m3 == IF required_measures[3] = "Required"
              THEN _apply_measure_3(measure3_choice, members, joints)
              ELSE [apps |-> <<>>, flags |-> <<>>, pending |-> <<>>]
    IN  LRBlock("lr_m3", m3.apps, m3.flags, m3.pending)

\* lines 136-164
LRMeasure4 ==
    LRBlock("lr_m4",
            IF required_measures[4] = "Required"
            THEN UpperDeckApps(4, "BCA steel for upper deck plate",
                               "Table 8.2.1 Measure 4 + Table 8.2.2", members)
            ELSE <<>>,
            <<>>, <<>>)

\* lines 166-194
LRMeasure5 ==
    LRBlock("lr_m5",
            IF required_measures[5] = "Required"
            THEN UpperDeckApps(5, "BCA steel for upper deck plate (Measure 5)",
                               "Table 8.2.1 Measure 5 + Table 8.2.2", members)
            ELSE <<>>,
            <<>>, <<>>)

\* lines 196-226: the PJP records and the thickness flags
LRAlwaysOn == LRBlock("lr_always_on", PjpApps(joints), ThickFlags(members), <<>>)

\* pipeline.py lines 76-87: DecisionResult is built from the values computed
LRFinalize == LRBlock("lr_finalize", <<>>, <<>>, <<>>)

\* the DecisionResult of pipeline.py lines 79-87
LRDecisionResult ==
    [control_parameters |-> cp, table_821_lookup |-> lookup_info,
     required_measures |-> required_measures, applications |-> applications,
     manual_review_flags |-> decision_flags \o app_flags,
     pending_choices |-> pending]

\* SE lines 796-806: mapping rules loaded, control values derived
SEDerive ==
    /\ pc = "se_derive"
    /\ \E mapping \in Mappings : se_run' = [mapping |-> mapping]
    /\ LET d == _derive_control_values(members)
       IN  /\ cv' = d.cv
           /\ cv_flags' = d.flags
    /\ pc' = NextStage(StageOrderSE, pc)
    /\ UNCHANGED <<inputs, cp, cp_flags, required_measures, lookup_info,
                   decision_flags, applications, app_flags, pending, lk_row,
                   se_lookup, results, inserted, prev_applications, run>>

\* SE lines 808-827: cv_flags is the all_flags list of the run
SELookup ==
    /\ pc = "se_lookup"
    /\ se_lookup' = se_lookup_context(members, table_821)
    /\ cv_flags' = se_lookup_context(members, table_821).flags
    /\ pc' = NextStage(StageOrderSE, pc)
    /\ UNCHANGED <<inputs, cp, cp_flags, cv, required_measures, lookup_info,
                   decision_flags, applications, app_flags, pending, lk_row,
                   se_run, results, inserted, prev_applications, run>>

\* the calls first..last of se_stage on results_list and all_flags
SEBlock(stage, first, last) ==
    /\ pc = stage
    /\ LET st == se_stage(last, se_lookup, members, joints, measure3_choice,
                          se_run.mapping,
                          IF last = first
                          THEN [results |-> results, flags |-> cv_flags]
                          ELSE se_stage(first, se_lookup, members, joints,
                                        measure3_choice, se_run.mapping,
                                        [results |-> results,
                                         flags |-> cv_flags]))
       IN  /\ results' = st.results
           /\ cv_flags' = st.flags
    /\ pc' = NextStage(StageOrderSE, pc)
    /\ UNCHANGED <<inputs, cp, cp_flags, cv, required_measures, lookup_info,
                   decision_flags, applications, app_flags, pending, lk_row,
                   se_lookup, se_run, inserted, prev_applications, run>>

\* SE lines 830-831
SEMeasure1 == SEBlock("se_m1", 1, 1)

\* lines 833-834
SEMeasure3 == SEBlock("se_m3", 2, 2)

\* lines 836-837
SEMeasure4 == SEBlock("se_m4", 3, 3)

\* lines 839-840
SEMeasure5 == SEBlock("se_m5", 4, 4)

\* line 843
SEMeasure2 == SEBlock("se_m2", 5, 5)

\* lines 846-849: weld detail rules, then special consideration
SEAlwaysOn == SEBlock("se_always_on", 6, 7)

\* lines 852-865: sort in place, DecisionResults built
SEFinalize ==
    /\ pc = "se_finalize"
    /\ results' = SortApplied(results, <<>>)
    /\ se_run' = se_results(se_lookup, se_run.mapping,
                            [results |-> results, flags |-> cv_flags])
    /\ pc' = NextStage(StageOrderSE, pc)
    /\ UNCHANGED <<inputs, cp, cp_flags, cv, cv_flags, required_measures,
                   lookup_info, decision_flags, applications, app_flags,
                   pending, lk_row, se_lookup, inserted, prev_applications,
                   run>>

NextStages ==
    \/ LRDerive \/ LRLookup \/ LRMeasure1 \/ LRMeasure2 \/ LRMeasure3
    \/ LRMeasure4 \/ LRMeasure5 \/ LRAlwaysOn \/ LRFinalize
    \/ SEDerive \/ SELookup \/ SEMeasure1 \/ SEMeasure3 \/ SEMeasure4
    \/ SEMeasure5 \/ SEMeasure2 \/ SEAlwaysOn \/ SEFinalize

SpecStages == InitStages /\ [][NextStages]_vars

\* both engines are straight-line code without blocking calls: a stage that
\* is enabled is eventually executed
SpecStagesFair == SpecStages /\ WF_vars(NextStages)

(***************************************************************************)
(* One run of each engine on inputs with an unknown member role, a joint   *)
(* of unspecified zone, block-shift offsets and an acceptance-criteria     *)
(* reference                                                               *)
(***************************************************************************)
OptMembers ==
    { Member("hatch_coaming_side_plate", 390, 60, "EH40", "cargo_hold_region"),
      Member("upper_deck_plate", 390, 60, "EH40", "cargo_hold_region"),
      Member("unknown", 390, 60, "EH40", "cargo_hold_region") }

OptMemberLists ==
    {ms \in SeqsUpTo(OptMembers, 2) :
        \E i \in 1..Len(ms) : ms[i].member_role = "hatch_coaming_side_plate"}

OptJoints ==
    << Joint("block_to_block_butt", "cargo_hold_region", <<1, 3>>, "FCAW"),
       Joint("block_to_block_butt", "unspecified", <<1, 3>>, "FCAW"),
       Joint("block_to_block_butt", "cargo_hold_region", <<3>>, "FCAW") >>

\* models.py Measure3Parameters with the acceptance-criteria reference given
ChoiceNde(ref) ==
    [Choice("enhanced_NDE", UNSPECIFIED)
        EXCEPT !.enhanced_nde_acceptance_criteria_ref = ref]

OptChoices ==
    {Choice("block_shift", off) : off \in {UNSPECIFIED, 250, 299, 300, 350}}
    \cup {ChoiceNde(ref) : ref \in {"unspecified", "ShipRight procedure"}}
    \cup {Choice("unspecified", UNSPECIFIED)}

InitOpt ==
    /\ Fresh
    /\ pc = "start"
    /\ members \in {WithMemberIds(ms) : ms \in OptMemberLists}
    /\ joints \in {WithJointIds(js) : js \in SubSeqsUpTo(OptJoints, 2)}
    /\ measure3_choice \in OptChoices
    /\ table_821 \in RunTables \ {<<>>}
    /\ y_control = UNSPECIFIED
    /\ t_control = UNSPECIFIED
    /\ lk_args = NoArgs

SpecOpt == InitOpt /\ [][NextRun]_vars

(***************************************************************************)
(* Required measures from a manual matrix: build_from_manual_matrix        *)
(* (rule_tables.py), then determine_required_measures                      *)
(***************************************************************************)
\* the text of a manual cell, by the substrings _parse_manual_status tests
ManualCell(has_not, has_required, has_note_2) ==
    [has_not |-> has_not, has_required |-> has_required,
     has_note_2 |-> has_note_2]

\* "Not required", "See Note 2", "Required" and a text with none of the words
ManualCells ==
    { ManualCell(TRUE, TRUE, FALSE), ManualCell(FALSE, FALSE, TRUE),
      ManualCell(FALSE, TRUE, FALSE), ManualCell(FALSE, FALSE, FALSE) }

\* rule_tables.py lines 370-378
_parse_manual_status(val) ==
    IF val.has_not /\ val.has_required THEN "Not required"
    ELSE IF val.has_note_2 THEN "See Note 2"
    ELSE "Required"

ManualMatrixEntry(y, t_min, t_max, c1, c2, c34, c5) ==
    [yield_strength_nmm2 |-> y, t_min_mm |-> t_min, t_max_mm |-> t_max,
     measure_1 |-> c1, measure_2 |-> c2, measure_3_and_4 |-> c34,
     measure_5 |-> c5]

\* rule_tables.py lines 348-367
build_from_manual_matrix(entries_821) ==
    [i \in 1..Len(entries_821) |->
        Row(entries_821[i].yield_strength_nmm2, entries_821[i].t_min_mm,
            entries_821[i].t_max_mm,
            _parse_manual_status(entries_821[i].measure_1),
            _parse_manual_status(entries_821[i].measure_2),
            _parse_manual_status(entries_821[i].measure_3_and_4),
            _parse_manual_status(entries_821[i].measure_5))]

ManualMatrices ==
    {<<ManualMatrixEntry(390, 50, 100, c1, c2, c34, c5)>> :
        c1 \in ManualCells, c2 \in ManualCells, c34 \in ManualCells,
        c5 \in ManualCells}

InitManual ==
    /\ Fresh
    /\ pc = "req"
    /\ members = <<>>
    /\ joints = <<>>
    /\ measure3_choice \in {Choice(o, UNSPECIFIED) : o \in {"enhanced_NDE", "unspecified"}}
    /\ table_821 \in {build_from_manual_matrix(es) : es \in ManualMatrices}
    /\ y_control = 390
    /\ t_control \in {60, 110}
    /\ lk_args = NoArgs

SpecManual == InitManual /\ [][NextReq]_vars

(***************************************************************************)
(* Properties                                                              *)
(***************************************************************************)
HasFlag(flags, id) == \E i \in 1..Len(flags) : flags[i].flag_id = id

\* Python's order of the target_type strings: "joint" < "member"
TypeRank(ttype) == IF ttype = "joint" THEN 0 ELSE 1

TargetKey(a) == <<a.target_type, a.target_id, a.measure_id>>

TargetKeyLess(a, b) ==
    \/ TypeRank(a.target_type) < TypeRank(b.target_type)
    \/ /\ a.target_type = b.target_type
       /\ \/ a.target_id < b.target_id
          \/ a.target_id = b.target_id /\ a.measure_id < b.measure_id

StrictlySorted(apps) ==
    \A i \in 1..(Len(apps) - 1) : TargetKeyLess(apps[i], apps[i+1])

Claim_C2_ApplicationsStrictlySorted ==
    pc = "applied" => StrictlySorted(applications)

\* C3: when exactly one of the side and top thickness is the sentinel and
\* t_control is numeric, a partial-thickness flag is raised (LR
\* derive_control_parameters and SE _derive_control_values).
Thm_C3_PartialThicknessFlagged ==
    /\ (/\ cp # NoCP
        /\ (cp.t_side = UNSPECIFIED) # (cp.t_top = UNSPECIFIED)
        /\ cp.t_control # UNSPECIFIED)
       => HasFlag(cp_flags, "t_control_partial")
    /\ LET side_t == LastValue(members, "hatch_coaming_side_plate",
                               "thickness_mm_as_built", UNSPECIFIED)
           top_t == LastValue(members, "hatch_coaming_top_plate",
                              "thickness_mm_as_built", UNSPECIFIED)
       IN  (/\ cv # NoCP
            /\ (side_t = UNSPECIFIED) # (top_t = UNSPECIFIED)
            /\ cv.t_control_mm # UNSPECIFIED)
           => \/ HasFlag(cv_flags, "CTRL-T-01")
              \/ HasFlag(cv_flags, "CTRL-T-02")

Wit_C3_SideOnly ==
    /\ cp # NoCP
    /\ cv # NoCP
    /\ cp.t_side = 90
    /\ cp.t_top = UNSPECIFIED
    /\ cp.t_control = 90
    /\ HasFlag(cp_flags, "t_control_partial")
    /\ cv.t_control_mm = 90
    /\ HasFlag(cv_flags, "CTRL-T-01")

\* C4: for a matched row whose measure-2 cell is See Note 2, the global
\* status of measure 2 is Conditional if and only if the Measure-3 option
\* is enhanced_NDE, and Not required for every other option.
Thm_C4_Note2Gating ==
    (/\ pc = "determined"
     /\ lookup_info.matched_row # NoRow
     /\ lookup_info.matched_row.measure_2 = "See Note 2")
    => /\ (required_measures[2] = "Conditional")
             <=> (measure3_choice.option = "enhanced_NDE")
       /\ measure3_choice.option # "enhanced_NDE"
             => required_measures[2] = "Not required"

Wit_C4_Note2Conditional ==
    /\ pc = "determined"
    /\ lookup_info.matched_row # NoRow
    /\ lookup_info.matched_row.measure_2 = "See Note 2"
    /\ measure3_choice.option = "enhanced_NDE"
    /\ required_measures[2] = "Conditional"

\* C5: the accumulator holds exactly one record per distinct
\* (target_type, target_id, measure_id) key handed to _append_measure; a
\* member and a joint with the same id and measure id stay two records.
Claim_C5_OneRecordPerTargetKey ==
    /\ Len(results) = Cardinality({TargetKey(m) : m \in Range(inserted)})
    /\ \A m \in Range(inserted) :
          \E i \in 1..Len(results) : TargetKey(results[i]) = TargetKey(m)

\* C6: when side and top thickness are both numeric, t_control is the
\* larger of the two and no partial-thickness flag is raised.
Thm_C6_ThicknessMax ==
    (/\ cp # NoCP
     /\ cp.t_side # UNSPECIFIED
     /\ cp.t_top # UNSPECIFIED)
    => /\ cp.t_control \in {cp.t_side, cp.t_top}
       /\ cp.t_control >= cp.t_side
       /\ cp.t_control >= cp.t_top
       /\ ~HasFlag(cp_flags, "t_control_partial")

Wit_C6_TopThicker ==
    /\ cp # NoCP
    /\ cp.t_side = 50
    /\ cp.t_top = 90
    /\ cp.t_control = 90

\* C7: when side and top yield are both numeric, y_control is their maximum
\* and a yield-mismatch flag is raised if and only if they differ; equal
\* yields raise no yield flag at all.
Thm_C7_YieldMaxAndMismatch ==
    (/\ cp # NoCP
     /\ cp.y_side # UNSPECIFIED
     /\ cp.y_top # UNSPECIFIED)
    => /\ cp.y_control \in {cp.y_side, cp.y_top}
       /\ cp.y_control >= cp.y_side
       /\ cp.y_control >= cp.y_top
       /\ HasFlag(cp_flags, "yield_mismatch") <=> (cp.y_side # cp.y_top)
       /\ ~HasFlag(cp_flags, "y_control_partial")

Wit_C7_Mismatch ==
    /\ cp # NoCP
    /\ cp.y_side = 355
    /\ cp.y_top = 460
    /\ cp.y_control = 460
    /\ HasFlag(cp_flags, "yield_mismatch")

Thm_C9_SpecialConsideration ==
    (/\ pc = "determined"
     /\ y_control # UNSPECIFIED
     /\ t_control # UNSPECIFIED)
    => /\ t_control > 100
            => /\ HasFlag(decision_flags, "thickness_gt100")
               /\ \A m \in MeasureIds : required_measures[m] = "Required"
               /\ lookup_info.matched_row = NoRow
       /\ t_control = 100
            => /\ ~HasFlag(decision_flags, "thickness_gt100")
               /\ \/ lookup_info.matched_row # NoRow
                  \/ HasFlag(decision_flags, "no_table_row")
               /\ lookup_info.matched_row # NoRow
                    => /\ lookup_info.matched_row \in Range(table_821)
                       /\ required_measures[1] = lookup_info.matched_row.measure_1
                       /\ required_measures[5] = lookup_info.matched_row.measure_5

Wit_C9_Thickness110 ==
    /\ pc = "determined"
    /\ t_control = 110
    /\ y_control = 390
    /\ table_821 = _DEFAULT_TABLE_821
    /\ HasFlag(decision_flags, "thickness_gt100")
    /\ \A m \in MeasureIds : required_measures[m] = "Required"

\* C10: lookup_table_821 returns a row only if its yield equals the
\* requested yield and t_min < t <= t_max, or t_min = 0 and t <= t_max; it
\* returns no row if and only if no row of the table satisfies that.  The
\* range loop of _lookup_table_821 (SE) does the same for the yield category
\* that the lines before it selected.
RowSatisfies(row, y, t) ==
    /\ row.yield_strength_nmm2 = y
    /\ \/ row.t_min_mm < t /\ t <= row.t_max_mm
       \/ row.t_min_mm = 0 /\ t <= row.t_max_mm

Thm_C10_LookupRow ==
    /\ lk_row # NotLooked =>
        /\ lk_row # NoRow
              => /\ lk_row \in Range(lk_args.table)
                 /\ RowSatisfies(lk_row, lk_args.yield_strength,
                                 lk_args.thickness)
        /\ (lk_row = NoRow)
              <=> ~\E r \in Range(lk_args.table) :
                      RowSatisfies(r, lk_args.yield_strength,
                                   lk_args.thickness)
    /\ se_lookup # NotLooked =>
        LET ys == matched_ys(lk_args.table, lk_args.yield_strength)
        IN  /\ se_lookup.row # NoRow
                  => /\ se_lookup.row \in Range(lk_args.table)
                     /\ RowSatisfies(se_lookup.row, ys, lk_args.thickness)
            /\ (se_lookup.row = NoRow)
                  <=> ~\E r \in Range(lk_args.table) :
                          RowSatisfies(r, ys, lk_args.thickness)
            /\ lk_args.yield_strength \in ys_categories(lk_args.table)
                  => ys = lk_args.yield_strength

Wit_C10_UpperBoundInclusive ==
    /\ lk_row # NotLooked
    /\ lk_row # NoRow
    /\ lk_row.t_min_mm > 0
    /\ lk_args.thickness = lk_row.t_max_mm
    /\ se_lookup # NotLooked
    /\ se_lookup.row = lk_row

(***************************************************************************)
(* Properties of one engine run                                            *)
(***************************************************************************)
UpperFlangeSet == {"upper_deck_plate", "hatch_coaming_side_plate",
                   "hatch_coaming_top_plate", "attached_longitudinal"}

\* every connected member exists and has a role of the upper-flange set
AllConnectedUpperFlange(ms, j) ==
    \A i \in 1..Len(j.connected_members) :
        /\ j.connected_members[i] \in MemberIds(ms)
        /\ MemberMap(ms, j.connected_members[i]).member_role \in UpperFlangeSet

Measure1Target(ms, j) ==
    /\ j.zone = "cargo_hold_region"
    /\ j.joint_type = "block_to_block_butt"
    /\ AllConnectedUpperFlange(ms, j)

HasRecord(apps, mid, ttype, tid, status) ==
    \E i \in 1..Len(apps) :
        /\ apps[i].measure_id = mid
        /\ apps[i].target_type = ttype
        /\ apps[i].target_id = tid
        /\ apps[i].status = status

RecordsOf(apps, mid) == {i \in 1..Len(apps) : apps[i].measure_id = mid}

LRDone == pc = "applied"
SEDone == pc = "se_decided"

\* C11 for apply_measures (LR)
C11_LR ==
    LRDone =>
        IF required_measures[1] = "Required"
        THEN \A k \in 1..Len(joints) :
                HasRecord(applications, 1, "joint", joints[k].joint_id,
                          "Required")
                <=> Measure1Target(members, joints[k])
        ELSE RecordsOf(applications, 1) = {}

\* C11 for _apply_measure_1 (SE), whose status of an applied record is
\* "applied"
C11_SE ==
    SEDone =>
        IF 1 \in se_run.required_measures_global
        THEN \A k \in 1..Len(joints) :
                HasRecord(se_run.applied_measures, 1, "joint",
                          joints[k].joint_id, "applied")
                <=> Measure1Target(members, joints[k])
        ELSE RecordsOf(se_run.applied_measures, 1) = {}

\* C11: when measure 1 is required, a joint receives a Measure-1 record with
\* status required if and only if its zone is cargo-hold, its type is
\* block-to-block butt and every connected member has a role of the
\* upper-flange set; when measure 1 is not required no joint receives a
\* Measure-1 record.
Claim_C11_Measure1Applicability == C11_LR /\ C11_SE

\* SE with the upper-flange roles configured: one upper-flange member among
\* the connected members is enough for the record
C11_SE_Configured ==
    (SEDone /\ se_run.mapping.upper_flange_long_member_roles = UpperFlangeSet)
        => C11_SE

\* the matched row's measure-2 cell is See Note 2 and the option is enhanced_NDE
Note2Enhanced(row, choice) ==
    /\ row # NoRow
    /\ row.measure_2 = "See Note 2"
    /\ choice.option = "enhanced_NDE"

\* C12 for apply_measures (LR)
C12_LR ==
    LRDone =>
        \A i \in RecordsOf(applications, 2) :
            /\ Note2Enhanced(lookup_info.matched_row, measure3_choice)
            /\ applications[i].status = "Conditional"

\* C12 for _apply_measure_2 (SE)
C12_SE ==
    SEDone =>
        \A i \in RecordsOf(se_run.applied_measures, 2) :
            /\ Note2Enhanced(se_run.row, measure3_choice)
            /\ se_run.applied_measures[i].status = "conditional"

\* C12: a Measure-2 record exists only when the matched row's measure-2 cell
\* is See Note 2 and the Measure-3 option is enhanced_NDE, and it then has
\* status conditional; a cell that is literally Required, a thickness above
\* 100 mm, no matched row, or any other option produce no Measure-2 record.
Claim_C12_Measure2OnlyUnderNote2 == C12_LR /\ C12_SE

SidePlateIds(ms) ==
    {ms[i].member_id :
        i \in {k \in 1..Len(ms) :
                  ms[k].member_role = "hatch_coaming_side_plate"}}

\* C13 for _apply_measure_3 (LR): the record carries the BCA type of Table 8.2.2
C13_LR ==
    (LRDone /\ required_measures[3] = "Required") =>
        \A mid \in SidePlateIds(members) :
            \E i \in RecordsOf(applications, 3) :
                /\ applications[i].target_type = "member"
                /\ applications[i].target_id = mid
                /\ applications[i].bca_type # ""

\* C13 for _apply_measure_3 (SE)
C13_SE ==
    (SEDone /\ 3 \in se_run.required_measures_global) =>
        \A mid \in SidePlateIds(members) :
            HasRecord(se_run.applied_measures, 3, "member", mid, "applied")

\* C13: whenever measure 3 is required, every member with role coaming side
\* plate has a Measure-3 member record carrying the BCA-steel requirement,
\* whatever the Measure-3 option.
Claim_C13_SidePlateBca == C13_LR /\ C13_SE

\* the members Measures 4 and 5 are stated for
DeckPlateInCargoHold(m) ==
    /\ m.member_role = "upper_deck_plate"
    /\ m.zone = "cargo_hold_region"

\* C14 for apply_measures (LR)
C14_LR ==
    LRDone =>
        \A mid \in {4, 5} :
            required_measures[mid] = "Required" =>
                \A k \in 1..Len(members) :
                    HasRecord(applications, mid, "member",
                              members[k].member_id, "Required")
                    <=> DeckPlateInCargoHold(members[k])

\* C14 for _apply_measure_4 and _apply_measure_5 (SE)
C14_SE ==
    SEDone =>
        \A mid \in {4, 5} :
            mid \in se_run.required_measures_global =>
                \A k \in 1..Len(members) :
                    HasRecord(se_run.applied_measures, mid, "member",
                              members[k].member_id, "applied")
                    <=> DeckPlateInCargoHold(members[k])

\* C14: when measure 4 (resp. 5) is required, a member has a Measure-4
\* (resp. Measure-5) record if and only if its role is upper deck plate and
\* its zone is cargo hold; the two measures give separate records with
\* distinct measure ids for the same member.
Claim_C14_DeckPlateTargets == C14_LR /\ C14_SE

\* the measure-id-0 records of apps are exactly one per coaming-to-deck joint
PjpExactly(apps, js, status) ==
    /\ \A k \in 1..Len(js) :
          HasRecord(apps, 0, "joint", js[k].joint_id, status)
          <=> js[k].joint_type = "coaming_to_deck_connection"
    /\ \A i \in RecordsOf(apps, 0) :
          /\ apps[i].target_type = "joint"
          /\ \E k \in 1..Len(js) : js[k].joint_id = apps[i].target_id

\* C15: in every run, whatever the control parameters, the lookup outcome
\* and the Measure-3 option, every coaming-to-deck joint has a measure-id-0
\* (PJP weld required) record and no joint of another type has one (LR
\* apply_measures and SE _apply_weld_detail_rules).
Thm_C15_PjpAlwaysOn ==
    /\ LRDone => PjpExactly(applications, joints, "Required")
    /\ SEDone => PjpExactly(se_run.applied_measures, joints, "applied")

\* SE run with no measure of the table in force (lookup skipped or no row), a
\* coaming-to-deck joint with its record and a butt joint without one
Wit_C15_PjpWithoutMeasures ==
    /\ SEDone
    /\ se_run.required_measures_global = {}
    /\ Len(joints) = 2
    /\ joints[1].joint_type = "block_to_block_butt"
    /\ joints[2].joint_type = "coaming_to_deck_connection"
    /\ HasRecord(se_run.applied_measures, 0, "joint", joints[2].joint_id,
                 "applied")
    /\ ~HasRecord(se_run.applied_measures, 0, "joint", joints[1].joint_id,
                  "applied")

\* a manual-review flag of the given id naming the joint
FlagNaming(flags, id, jid) ==
    \E i \in 1..Len(flags) :
        /\ flags[i].flag_id = id
        /\ flags[i].related_ids = <<jid>>

\* the joint's Measure-3 record tells the prohibited weld process
Measure3RecordWithWeld(apps, jid, weld) ==
    \E i \in RecordsOf(apps, 3) :
        /\ apps[i].target_type = "joint"
        /\ apps[i].target_id = jid
        /\ apps[i].weld_process = weld

\* C16: with measure 3 required and option enhanced_NDE, every
\* block-to-block butt joint welded by EGW has a manual-review flag naming
\* it and a Measure-3 record marked with the prohibited process; no joint
\* with another weld process is flagged (LR _apply_enhanced_nde).
Claim_C16_EgwNoncompliant ==
    (/\ LRDone
     /\ required_measures[3] = "Required"
     /\ measure3_choice.option = "enhanced_NDE")
    => \A k \in 1..Len(joints) :
          LET j == joints[k]
          IN  /\ (j.joint_type = "block_to_block_butt" /\ j.weld_process = "EGW")
                    => /\ FlagNaming(app_flags, "egw_prohibited", j.joint_id)
                       /\ Measure3RecordWithWeld(applications, j.joint_id, "EGW")
              /\ j.weld_process # "EGW"
                    => ~FlagNaming(app_flags, "egw_prohibited", j.joint_id)

FourOptions == {"block_shift", "crack_arrest_hole", "crack_arrest_insert",
                "enhanced_NDE"}

\* C17: the pending-choices list holds one entry for measure 3 with status
\* pending_manual_choice, exactly the four allowed options and the required
\* parameters of each, if and only if measure 3 is required and the
\* Measure-3 option is unspecified; otherwise the list is empty.
Thm_C17_PendingChoice ==
    LRDone =>
        IF required_measures[3] = "Required"
           /\ measure3_choice.option = "unspecified"
        THEN /\ Len(pending) = 1
             /\ pending[1].measure_id = 3
             /\ pending[1].status = "pending_manual_choice"
             /\ Len(pending[1].allowed_options) = 4
             /\ Range(pending[1].allowed_options) = FourOptions
             /\ DOMAIN pending[1].required_params_by_option = FourOptions
             /\ \A o \in FourOptions :
                   pending[1].required_params_by_option[o] # <<>>
             /\ pending[1].required_params_by_option["block_shift"]
                   = <<"block_shift_offset_mm">>
        ELSE pending = <<>>

Wit_C17_OptionUnspecified ==
    /\ LRDone
    /\ required_measures[3] = "Required"
    /\ measure3_choice.option = "unspecified"
    /\ Len(pending) = 1
    /\ Len(joints) >= 1

\* C18: after determine_required_measures the statuses of measure 3 and
\* measure 4 are identical for every input (matched row, no row, skipped
\* lookup, t > 100), and both are Required exactly when the matched row's
\* bundled 3+4 cell is Required or the t_control > 100 branch was taken.
Thm_C18_BundleExpansion ==
    pc = "determined" =>
        /\ required_measures[3] = required_measures[4]
        /\ (required_measures[3] = "Required")
              <=> \/ /\ lookup_info.matched_row # NoRow
                     /\ lookup_info.matched_row.measure_3_and_4 = "Required"
                  \/ /\ ~ControlUnspecified(y_control, t_control)
                     /\ t_control > 100

\* a matched row whose bundled cell is Conditional: both stay Not required
Wit_C18_OtherCellStatus ==
    /\ pc = "determined"
    /\ lookup_info.matched_row # NoRow
    /\ lookup_info.matched_row.measure_3_and_4 = "Conditional"
    /\ required_measures[3] = "Not required"
    /\ required_measures[4] = "Not required"
    /\ required_measures[5] = "Required"

\* no row of the table holds the thickness in its range, for any yield
NoRowInRange(table, t) ==
    ~\E r \in Range(table) : RowSatisfies(r, r.yield_strength_nmm2, t)

OnlyAlwaysOnRecords(apps) ==
    \A i \in 1..Len(apps) : apps[i].measure_id = 0

\* C19: when both control values are numeric, t_control <= 100 and no row of
\* Table 8.2.1 matches (an empty table included), the run completes with a
\* no-matching-row flag, no measure 1-5 required and no application record
\* of a measure id 1-5, and the always-on PJP rule is still applied (LR
\* determine_required_measures + apply_measures, SE run_decision).
Thm_C19_LookupFailureNonFatal ==
    /\ (/\ LRDone
        /\ ~ControlUnspecified(cp.y_control, cp.t_control)
        /\ cp.t_control <= 100
        /\ NoRowInRange(table_821, cp.t_control))
       => /\ HasFlag(decision_flags, "no_table_row")
          /\ \A m \in MeasureIds : required_measures[m] = "Not required"
          /\ OnlyAlwaysOnRecords(applications)
          /\ PjpExactly(applications, joints, "Required")
    /\ (/\ SEDone
        /\ ~is_unspecified(se_run.cv.y_control_nmm2)
        /\ ~is_unspecified(se_run.cv.t_control_mm)
        /\ se_run.cv.t_control_mm <= 100
        /\ NoRowInRange(table_821, se_run.cv.t_control_mm))
       => /\ HasFlag(se_run.manual_review_flags, "T821-NO-MATCH")
          /\ se_run.required_measures_global = {}
          /\ OnlyAlwaysOnRecords(se_run.applied_measures)
          /\ PjpExactly(se_run.applied_measures, joints, "applied")

\* LR run on a table that has rows but none for 45 mm, with a coaming-to-deck
\* joint that keeps its PJP record
Wit_C19_NoRowFor45 ==
    /\ LRDone
    /\ table_821 # <<>>
    /\ cp.t_control = 45
    /\ cp.y_control = 390
    /\ HasFlag(decision_flags, "no_table_row")
    /\ \A m \in MeasureIds : required_measures[m] = "Not required"
    /\ \E k \in 1..Len(joints) :
          joints[k].joint_type = "coaming_to_deck_connection"
    /\ Len(applications) >= 1
    /\ OnlyAlwaysOnRecords(applications)

\* SE run on an empty table
C19_EmptyTableSE ==
    /\ SEDone
    /\ table_821 = <<>>
    /\ se_run.cv.t_control_mm = 60
    /\ HasFlag(se_run.manual_review_flags, "T821-NO-MATCH")
    /\ Len(se_run.applied_measures) >= 1
    /\ OnlyAlwaysOnRecords(se_run.applied_measures)

\* every member id named by a joint is in the member list
JointsReferToMembers(ms, js) ==
    \A k \in 1..Len(js) :
        \A i \in 1..Len(js[k].connected_members) :
            js[k].connected_members[i] \in MemberIds(ms)

\* C20: a run on an input in which a joint names a member id that is not in
\* the member list produces no result: whenever LR apply_measures or SE
\* run_decision has returned its records, every joint refers to members of
\* the list only.
Claim_C20_MissingMemberFatal ==
    (LRDone \/ SEDone) => JointsReferToMembers(members, joints)

\* the precedence noncompliant > required > conditional >
\* pending_manual_choice > not_applicable
StatusRank(status) ==
    CASE status = "noncompliant" -> 5
      [] status = "required" -> 4
      [] status = "conditional" -> 3
      [] status = "pending_manual_choice" -> 2
      [] OTHER -> 1

\* the records handed in for the key of m
SameKeyInserted(ms, m) == {x \in Range(ms) : SameKey(x, m)}

StoredFor(rs, m) == rs[CHOOSE i \in 1..Len(rs) : SameKey(rs[i], m)]

\* C21: after inserts on one key the stored record is the merge of all of
\* them: its requirement strings are the union of theirs, its noncompliance
\* flag is the OR of theirs, and its status is the highest of theirs in the
\* precedence noncompliant > required > conditional > pending_manual_choice
\* > not_applicable.
Claim_C21_MergeOnInsert ==
    pc = "merge" =>
        \A m \in Range(inserted) :
            LET group == SameKeyInserted(inserted, m)
                stored == StoredFor(results, m)
            IN  /\ Range(stored.requirements)
                      = UNION {Range(x.requirements) : x \in group}
                /\ stored.noncompliance = (\E x \in group : x.noncompliance)
                /\ \A x \in group :
                      StatusRank(stored.status) >= StatusRank(x.status)
                /\ \E x \in group : stored.status = x.status

\* what the accumulator holds for each key, without the order of lists
KeyContent(rs) ==
    {[measure_id |-> rs[i].measure_id, target_id |-> rs[i].target_id,
      status |-> rs[i].status, requirements |-> Range(rs[i].requirements),
      notes |-> Range(rs[i].notes), noncompliance |-> rs[i].noncompliance] :
        i \in 1..Len(rs)}

Reverse(s) == [i \in 1..Len(s) |-> s[Len(s) + 1 - i]]

\* C30: the content of the accumulator for every key (status, requirement
\* strings, notes, noncompliance) does not depend on the order of the
\* atomic inserts: the same records inserted in the reverse order leave the
\* same content.
Claim_C30_OrderIndependence ==
    pc = "merge" =>
        KeyContent(results) = KeyContent(AppendAll(<<>>, Reverse(inserted)))

\* the stages that have run in the current state
StagesRun(order) == {order[i] : i \in 1..(IndexOf(order, pc) - 1)}

HasMeasure(list, mid) == \E i \in 1..Len(list) : list[i].measure_id = mid

InStages(order) == pc \in Range(order)

\* C22 (first part): control moves through the stages in the order of the
\* text, one stage per step, never back
C22_FixedOrder ==
    [][\/ InStages(StageOrderLR) /\ pc' = NextStage(StageOrderLR, pc)
       \/ InStages(StageOrderSE) /\ pc' = NextStage(StageOrderSE, pc)]_vars

\* C22 (last part): every run that starts reaches the end of finalize
C22_ReachesFinalize ==
    (pc \in {"lr_derive", "se_derive"}) ~> (pc \in {"lr_done", "se_done"})

\* the SE half of the record order of C22
C22_SE ==
    (InStages(StageOrderSE) /\ HasMeasure(results, 2))
        => {"se_m1", "se_m3", "se_m4", "se_m5"} \subseteq StagesRun(StageOrderSE)

\* an SE run that generated a Measure-2 record
C22_SE_Measure2Generated == InStages(StageOrderSE) /\ HasMeasure(results, 2)

\* C22: Measure-2 records are generated only after the Measure-1/3/4/5
\* records: whenever the list of records under construction holds a
\* Measure-2 record, the stages of measures 1, 3, 4 and 5 have already run
Claim_C22_Measure2AfterOthers ==
    /\ (InStages(StageOrderLR) /\ HasMeasure(applications, 2))
          => {"lr_m1", "lr_m3", "lr_m4", "lr_m5"} \subseteq StagesRun(StageOrderLR)
    /\ C22_SE

(***************************************************************************)
(* Properties of one engine run on the inputs of SpecOpt                   *)
(***************************************************************************)
\* the cargo-hold block-to-block butt joints with a connected member of
\* role unknown
UnknownRoleJoints ==
    {k \in 1..Len(joints) :
        /\ joints[k].joint_type = "block_to_block_butt"
        /\ joints[k].zone = "cargo_hold_region"
        /\ "unknown" \in ConnectedRoles(members, joints[k])}

SERequired(mid) == mid \in se_run.required_measures_global

C23_LR ==
    (LRDone /\ required_measures[1] = "Required") =>
        \A k \in UnknownRoleJoints :
            HasRecord(applications, 1, "joint", joints[k].joint_id,
                      "pending_manual_review")

C23_SE ==
    (SEDone /\ SERequired(1)) =>
        \A k \in UnknownRoleJoints :
            HasRecord(se_run.applied_measures, 1, "joint", joints[k].joint_id,
                      "pending_manual_review")

\* C23: with Measure 1 required, a cargo-hold butt joint that has a connected
\* member of role unknown gets a Measure-1 record with status
\* pending_manual_review (neither required nor omitted)
Claim_C23_UnknownRolePending == C23_LR /\ C23_SE

\* the SE run in which no connected member is in the configured upper-flange
\* list meets C23
C23_SE_NoUpper ==
    (SEDone /\ SERequired(1)) =>
        \A k \in UnknownRoleJoints :
            ~se_connected_upper(members, joints[k], se_run.mapping)
                => HasRecord(se_run.applied_measures, 1, "joint",
                             joints[k].joint_id, "pending_manual_review")

C23_SE_Pending ==
    /\ SEDone /\ SERequired(1)
    /\ \E k \in UnknownRoleJoints :
          HasRecord(se_run.applied_measures, 1, "joint", joints[k].joint_id,
                    "pending_manual_review")

\* the butt joints _apply_block_shift looks at (LR lines 321-330)
LRBlockShiftScope ==
    Range(ButtsTouching(members, joints, {"hatch_coaming_side_plate",
                                          "upper_deck_plate"}))

\* the butt joints the SE option functions look at
SEButtScope == Range(AllButts(joints))

\* a Measure-3 joint record of LR with the given status and PASS/FAIL mark
LRBlockShiftRecord(jid, status, ok) ==
    \E i \in RecordsOf(applications, 3) :
        /\ applications[i].target_type = "joint"
        /\ applications[i].target_id = jid
        /\ applications[i].status = status
        /\ applications[i].offset_meets_requirement = ok

\* a Measure-3 joint record of SE with the given status, requirement text
\* and notes
SEBlockShiftRecord(jid, status, req, notes) ==
    \E i \in RecordsOf(se_run.applied_measures, 3) :
        /\ se_run.applied_measures[i].target_type = "joint"
        /\ se_run.applied_measures[i].target_id = jid
        /\ se_run.applied_measures[i].status = status
        /\ se_run.applied_measures[i].requirements = <<req>>
        /\ se_run.applied_measures[i].notes = notes

C24_LR ==
    (/\ LRDone /\ required_measures[3] = "Required"
     /\ measure3_choice.option = "block_shift") =>
        \A j \in LRBlockShiftScope :
            LET off == measure3_choice.block_shift_offset_mm
            IN  IF off = UNSPECIFIED
                THEN HasRecord(applications, 3, "joint", j.joint_id,
                               "pending_manual_review")
                ELSE IF off >= 300
                THEN LRBlockShiftRecord(j.joint_id, "Required", TRUE)
                ELSE /\ LRBlockShiftRecord(j.joint_id, "Required", FALSE)
                     /\ FlagNaming(app_flags, "block_shift_short", j.joint_id)

C24_SE ==
    (/\ SEDone /\ SERequired(3)
     /\ measure3_choice.option = "block_shift") =>
        \A j \in SEButtScope :
            LET off == measure3_choice.block_shift_offset_mm
            IN  IF off = UNSPECIFIED
                THEN HasRecord(se_run.applied_measures, 3, "joint", j.joint_id,
                               "pending_manual_review")
                ELSE IF off >= 300
                THEN SEBlockShiftRecord(j.joint_id, "applied",
                                        "Block shift: PASS", <<>>)
                ELSE /\ SEBlockShiftRecord(j.joint_id, "applied",
                                           "Block shift: FAIL",
                                           <<"NONCOMPLIANCE">>)
                     /\ FlagNaming(se_run.manual_review_flags, "M3-BS-FAIL",
                                   j.joint_id)

\* C24: with Measure 3 required and option block_shift, every in-scope butt
\* joint gets a Measure-3 record: PASS when the offset is at least 300 mm
\* (300 included), FAIL recorded as noncompliant with a flag naming the joint
\* when it is below 300 mm, status pending_manual_review when the offset is
\* unspecified
Claim_C24_BlockShift == C24_LR /\ C24_SE

\* SE runs of the three cases of C24
C24_SE_Cases ==
    /\ SEDone /\ SERequired(3) /\ SEButtScope # {}
    /\ measure3_choice.option = "block_shift"
    /\ measure3_choice.block_shift_offset_mm \in {UNSPECIFIED, 299, 300}

\* the numeric cases of C24 hold of LR
C24_LR_Numeric ==
    (LRDone /\ measure3_choice.block_shift_offset_mm # UNSPECIFIED) => C24_LR

EnhancedNdeStatus(required, conditional) ==
    IF measure3_choice.enhanced_nde_acceptance_criteria_ref = "unspecified"
    THEN conditional ELSE required

C25_LR ==
    (/\ LRDone /\ required_measures[3] = "Required"
     /\ measure3_choice.option = "enhanced_NDE") =>
        \A j \in Range(ButtsTouching(members, joints,
                                     {"hatch_coaming_side_plate",
                                      "upper_deck_plate",
                                      "attached_longitudinal"})) :
            \A i \in RecordsOf(applications, 3) :
                (/\ applications[i].target_type = "joint"
                 /\ applications[i].target_id = j.joint_id)
                    => applications[i].status
                          = EnhancedNdeStatus("Required", "Conditional")

C25_SE ==
    (/\ SEDone /\ SERequired(3)
     /\ measure3_choice.option = "enhanced_NDE") =>
        \A j \in SEButtScope :
            /\ HasRecord(se_run.applied_measures, 3, "joint", j.joint_id,
                         EnhancedNdeStatus("applied", "conditional"))
            /\ ~HasRecord(se_run.applied_measures, 3, "joint", j.joint_id,
                          EnhancedNdeStatus("conditional", "applied"))

\* C25: with option enhanced_NDE, the Measure-3 record of an in-scope joint
\* has status conditional when the acceptance-criteria reference is
\* unspecified and status required only when it is specified
Claim_C25_EnhancedNdeStatus == C25_LR /\ C25_SE

C25_SE_BothCases ==
    /\ SEDone /\ SERequired(3) /\ SEButtScope # {}
    /\ measure3_choice.option = "enhanced_NDE"

C26_LR ==
    (/\ LRDone /\ required_measures[3] = "Required"
     /\ measure3_choice.option = "unspecified") =>
        \A j \in Range(AllButts(joints)) :
            /\ HasRecord(applications, 3, "joint", j.joint_id,
                         "pending_manual_choice")
            /\ \A i \in RecordsOf(applications, 3) :
                  (/\ applications[i].target_type = "joint"
                   /\ applications[i].target_id = j.joint_id)
                      => applications[i].status = "pending_manual_choice"

C26_SE ==
    (/\ SEDone /\ SERequired(3)
     /\ measure3_choice.option = "unspecified") =>
        \A j \in SEButtScope :
            /\ HasRecord(se_run.applied_measures, 3, "joint", j.joint_id,
                         "pending_manual_choice")
            /\ \A i \in RecordsOf(se_run.applied_measures, 3) :
                  (/\ se_run.applied_measures[i].target_type = "joint"
                   /\ se_run.applied_measures[i].target_id = j.joint_id)
                      => se_run.applied_measures[i].status
                            = "pending_manual_choice"

\* C26: with Measure 3 required and the option unspecified, no sub-rule
\* fires and every in-scope butt joint gets a Measure-3 joint record with
\* status pending_manual_choice
Claim_C26_OptionUnspecifiedRecords == C26_LR /\ C26_SE

C26_SE_Unspecified ==
    /\ SEDone /\ SERequired(3) /\ SEButtScope # {}
    /\ measure3_choice.option = "unspecified"

\* the butt joints whose zone is unspecified
UnspecifiedZoneButts ==
    {k \in 1..Len(joints) :
        /\ joints[k].joint_type = "block_to_block_butt"
        /\ joints[k].zone = "unspecified"}

C27_LR ==
    (LRDone /\ required_measures[1] = "Required") =>
        \A k \in UnspecifiedZoneButts :
            HasRecord(applications, 1, "joint", joints[k].joint_id,
                      "pending_manual_review")

C27_SE ==
    (SEDone /\ SERequired(1)) =>
        \A k \in UnspecifiedZoneButts :
            \E i \in RecordsOf(se_run.applied_measures, 1) :
                /\ se_run.applied_measures[i].target_id = joints[k].joint_id
                /\ se_run.applied_measures[i].status = "pending_manual_review"
                /\ se_run.applied_measures[i].notes # <<>>

\* C27: with Measure 1 required, a butt joint whose zone is unspecified gets
\* a Measure-1 record with status pending_manual_review and an explanatory
\* note; it is not omitted
Claim_C27_UnspecifiedZonePending == C27_LR /\ C27_SE

C27_SE_UnspecifiedZone ==
    SEDone /\ SERequired(1) /\ UnspecifiedZoneButts # {}

AbsDiff(a, b) == IF a >= b THEN a - b ELSE b - a

\* the known yield categories that have a row holding thickness t
CategoriesWithRow(table, t) ==
    {c \in Range(FallbackYields) : lookup_table_821(table, c, t) # NoRow}

\* the yield fallback of C28 is called for
NeedsFallback(table, y, t) ==
    /\ _is_specified_number(y) /\ _is_specified_number(t)
    /\ lookup_table_821(table, y, t) = NoRow
    /\ CategoriesWithRow(table, t) # {}

\* C28: when no row of yield y_control holds t_control but another yield
\* category does, determine_required_measures takes the row of the known
\* category nearest to y_control and raises a substitution flag whenever the
\* matched row's yield differs from y_control
Claim_C28_NearestYieldFallback ==
    (/\ pc = "determined" /\ NeedsFallback(table_821, y_control, t_control)
     /\ ~ThicknessSpecial(t_control)) =>
        /\ lookup_info.matched_row # NoRow
        /\ \A c \in CategoriesWithRow(table_821, t_control) :
              AbsDiff(lookup_info.matched_row.yield_strength_nmm2, y_control)
                 <= AbsDiff(c, y_control)
        /\ lookup_info.matched_row.yield_strength_nmm2 # y_control
              => \E i \in 1..Len(decision_flags) :
                    decision_flags[i].flag_id = "yield_fallback"

\* the flag half of C28 holds of determine_required_measures
C28_LR_Flag ==
    (/\ pc = "determined" /\ NeedsFallback(table_821, y_control, t_control)
     /\ ~ThicknessSpecial(t_control)) =>
        /\ lookup_info.matched_row # NoRow
        /\ \E i \in 1..Len(decision_flags) :
              decision_flags[i].flag_id = "yield_fallback"

\* C28 for _lookup_table_821 (SE), on the lookups of SpecLookup
C28_SE ==
    (/\ se_lookup # NotLooked
     /\ NeedsFallback(lk_args.table, lk_args.yield_strength,
                      lk_args.thickness)) =>
        /\ se_lookup.row # NoRow
        /\ \A c \in CategoriesWithRow(lk_args.table, lk_args.thickness) :
              AbsDiff(se_lookup.row.yield_strength_nmm2,
                      lk_args.yield_strength)
                 <= AbsDiff(c, lk_args.yield_strength)
        /\ se_lookup.row.yield_strength_nmm2 # lk_args.yield_strength
              => se_lookup.flags # <<>>

\* C29: after determine_required_measures, for every table and input, the
\* status of measures 1, 3, 4 and 5 is Required or Not required, never
\* See Note 2 or Conditional, and measure 2 is never left as See Note 2
Claim_C29_StatusDomain ==
    pc = "determined" =>
        /\ \A m \in {1, 3, 4, 5} :
              required_measures[m] \in {"Required", "Not required"}
        /\ required_measures[2] # "See Note 2"

\* the measure-2, measure-3 and measure-4 part of C29, which holds
C29_Measures234 ==
    pc = "determined" =>
        /\ \A m \in {3, 4} :
              required_measures[m] \in {"Required", "Not required"}
        /\ required_measures[2] # "See Note 2"

\* a manual row matched with See Note 2 in its bundled 3+4 cell
C29_Note2In34 ==
    /\ pc = "determined"
    /\ lookup_info.matched_row # NoRow
    /\ lookup_info.matched_row.measure_3_and_4 = "See Note 2"

====
